---- MODULE Spec2Model ----
(***************************************************************************)
(* shpck: the concurrent job-distribution layer (ThreadManager and its     *)
(* compression workers) and the target-size search of the compressors.     *)
(*                                                                         *)
(*   Spec        ThreadManager.processFiles: fragmentation, chunking, the  *)
(*               worker pool, the message protocol, aggregation, cleanup,  *)
(*               and the single-thread fallback.                           *)
(*   SpecChunk   ThreadManager.chunkFiles applied to every list and every  *)
(*               thread count of the bounds.                               *)
(*   SpecSearch  ImageCompressor.standardCompressionStrategy against an    *)
(*               arbitrary encoder.                                        *)
(*   SpecRequest the target-size entry of the image and video compressors. *)
(*   SpecImageExtreme  ImageCompressor.extremeCompressionStrategy: the     *)
(*               catalog, the trials, the selection and the fallback.      *)
(*   SpecVideoExtreme  VideoCompressor.extremeCompressionStrategy and      *)
(*               parallelExtremeCompressionStrategy with their temporary   *)
(*               files.                                                    *)
(*   SpecExtreme both extreme searches under one specification.            *)
(*   SpecTemp    the temporary paths of the trials of two workers.         *)
(*   SpecSearchFair  SpecSearch with the search taking its steps.          *)
(*   SpecThreads ThreadManager.calculateOptimalThreads in the constructor. *)
(*   SpecCommand compressCommand of commands/compress.js: the threading    *)
(*               decision, the groups, processFiles and the summary.       *)
(*   SpecBatch   Spec and SpecCommand under one specification.             *)
(*   SpecSplit   splitLargeImagesIntoFragments with the pixel rows of the  *)
(*               fragments.                                                *)
(*   SpecStandard  the bitrate of VideoCompressor's standard strategy.     *)
(*   SpecCommandFair  SpecCommand with an event loop that keeps running.   *)
(*   SpecKeep    the scale of every trial of the three target-size         *)
(*               searches, with and without keepDimensions.                *)
(*   SpecCache   VideoCompressor.detectFFmpegPaths with its cache, the     *)
(*               expiry timers and clearDetectionCache.                    *)
(***************************************************************************)
EXTENDS Integers, Sequences, FiniteSets, TLC

(* ---------------------------------------------------------------------- *)
(* Bounds of the model                                                     *)
(* ---------------------------------------------------------------------- *)
MaxFiles == 4          \* longest list of a batch, fragments included
MaxThreads == 3        \* largest threadCount of the batches explored
MaxChunkFiles == 6     \* SpecChunk: longest list handed to chunkFiles
MaxChunkThreads == 5   \* SpecChunk: largest threadCount
MaxSize == 4           \* SpecSearch: largest encoder output, in bytes
MaxTarget == 3         \* SpecSearch: largest byte budget
MaxQualityOption == 8  \* SpecSearch: largest explicit quality besides the default
MaxOriginal == 20      \* SpecRequest: largest input file, in bytes
MaxTargetBytes == 3    \* SpecRequest: largest target size, in bytes
MaxTrialSize == 2      \* image extreme search: largest buffer and largest budget
MaxTime == 2           \* image extreme search: longest processing time of a trial
MaxBuffers == 2        \* image extreme search: trials that return a buffer
MaxLiveIndex == 6      \* extreme searches: last strategy whose trial yields an output
MaxVideoSize == 3      \* video extreme search: largest file of a trial
MaxVideoTarget == 2    \* video extreme search: largest byte budget
MaxOutputs == 2        \* video extreme search: trials that leave a file
MaxCpus == 2           \* video extreme search: most logical cores
MaxTempTrials == 2     \* SpecTemp: strategies of a search whose trials are followed
MaxCores == 17         \* SpecThreads: most logical cores
MaxThreadsOption == 17 \* SpecThreads: largest explicit thread count
MaxCommandFiles == 4   \* SpecCommand: longest list of resolved files
MaxSplitFiles == 2     \* SpecSplit: longest list handed to the fragmentation
MaxSplitThreads == 4   \* SpecSplit: largest threadCount
MaxHeight == 7         \* SpecSplit: tallest image, in pixel rows
MaxTargetBlocks == 80  \* SpecStandard: largest target size, in blocks of TargetBlock bytes
MaxDuration == 3       \* SpecStandard: longest probed duration, in seconds
MaxClock == 8          \* SpecCache: last minute of the clock
MaxDetections == 3     \* SpecCache: most runs of the detection

(* ---------------------------------------------------------------------- *)
(* Program constants                                                       *)
(* ---------------------------------------------------------------------- *)
MinThreads == 2        \* Math.max(2, ...) of calculateOptimalThreads
SingleThreadLimit == 4 \* filesToProcess.length < 4
MIN_FRAGMENTS == 2
MinQuality == 5               \* let minQ = 5
DefaultQuality == 85          \* parseInt(options.quality) || 85
StandardMaxAttempts == 25     \* compressToTargetSize: maxAttempts
FallbackMaxAttempts == 15     \* extremeCompressionStrategy's fallback call
PngTrials == 4                \* levels x palettes of the png branch
ImageExtremePercent == 10     \* compressionRatio < 0.10
VideoExtremePercent == 15     \* (targetBytes / originalSize) < 0.15

VARIABLES
  files,          \* the list handed to processFiles
  threadCount,    \* this.threadCount
  forceThreads,   \* options.forceThreads
  items,          \* filesToProcess (after fragmentation)
  chunks,         \* result of chunkFiles(filesToProcess)
  pfpc,           \* position of processFiles
  path,           \* which branch processFiles took
  wpc,            \* position of each worker's processChunk
  wresults,       \* each worker's local results array
  log,            \* every message a worker posted, in posting order
  rd,             \* number of messages of each worker the coordinator handled
  evt,            \* 'error'/'exit' event of a worker: none, pending, handled
  settled,        \* state of the promise createWorker returned per chunk
  workers,        \* this.workers
  spawned,        \* every worker constructed for the batch
  terminated,     \* workers on which terminate() was called
  results,        \* the batch result object
  outcome,        \* what compress did for each item: "none", "fail" or a reduction
  sidx,           \* loop position of processSingleThreaded
  \* ImageCompressor.standardCompressionStrategy
  format,         \* output format of the search
  targetSize,     \* byte budget of the search
  maxAttempts,    \* attempt cap handed to the search
  minQ, maxQ,     \* the bisection interval
  attempts,       \* bisection trials made
  lastGoodQ,      \* quality of lastGoodBuffer, 0 when there is none
  lastGoodSize,   \* length of lastGoodBuffer, 0 when there is none
  bestSize,       \* png branch: length of bestBuffer, 0 when there is none
  trials,         \* every encode of the search: parameter and output size
  written,        \* length of the buffer written to outputPath, 0 before
  spc,            \* position of the search
  \* the target-size entry of the two compressors
  rkind,          \* "image" or "video"
  originalSize,   \* size of the input file
  targetBytes,    \* parsed target size
  mode,           \* search the request was routed to
  encodes,        \* encoder runs started for the request
  \* ImageCompressor.extremeCompressionStrategy
  keepDims,       \* this.options.keepDimensions || baseOptions.keepDimensions
  xtarget,        \* targetSize of the extreme search
  trialResults,   \* results of the trials that have settled, in index order
  targetFormat,   \* this.options.format as read by the selection
  strategy,       \* this.options.strategy || 'auto' as read by the selection
  chosen,         \* the trial written to the output, NoTrial before
  ipc,            \* position of the image extreme search
  \* VideoCompressor.extremeCompressionStrategy and its parallel variant
  vmode,          \* "sequential" or "parallel"
  isFFmpegLimited,\* this.isFFmpegLimited
  isLargeVideo,   \* width > 2560 || height > 1440
  cpus,           \* require('os').cpus().length
  vtarget,        \* targetSize of the video search
  vi,             \* number of strategies whose trial has settled
  observed,       \* per settled trial: the size of its output, 0 when it failed
  batchResults,   \* parallel variant: results of the batch not yet examined
  bestResult,     \* bestResult, NoResult while null
  tempFiles,      \* indices i whose file _extreme_<i> exists
  finalOutput,    \* index of the strategy that produced finalOutputPath, 0 before
  vpc,            \* position of the video search
  \* temporary paths of the trials of two workers
  inputs,         \* the video each worker compresses
  outputOption,   \* options.output
  videoFormat,    \* options.format
  searchVariant,  \* which of the two video searches the workers run
  running,        \* trials whose encoder is writing: <<worker, index>>
  \* the ThreadManager constructor
  threads,        \* options.threads
  ultrafast,      \* options.ultrafast
  totalCores,     \* os.cpus().length
  tpc,            \* position of the constructor
  \* compressCommand and the processFiles of compress.js
  resolvedFiles,  \* resolvedFiles: type and size class of each file
  options,        \* options: multiThread, forceThreads, parallel
  cpuCores,       \* os.cpus().length
  hasLargeFiles,  \* result of checkForLargeFiles
  useMultiThread, \* useMultiThread
  managerCalls,   \* calls of threadManager.processFiles: group and branch taken
  group,          \* file group being processed: "images" or "videos"
  started,        \* files whose processFile passed currentlyProcessing++
  finished,       \* files whose processFile ended
  failed,         \* files whose compress threw
  commandResults, \* results of compressCommand
  returnValue,    \* what the promise of compressCommand resolved to
  exitCode,       \* argument of process.exit, 0 while it was not called
  cpc,            \* position of compressCommand
  \* splitLargeImagesIntoFragments with the pixel rows of the fragments
  splitInput,     \* files: path, extension, size in MB, height in rows
  splitThreads,   \* threadCount
  splitForce,     \* options.forceThreads
  splitOutput,    \* result, filesToProcess of processFiles
  splitpc,        \* position of the function
  \* VideoCompressor.standardCompressionStrategy
  stdTargetSize,  \* targetSize, in bytes
  stdDuration,    \* metadata.format.duration, in seconds (0: absent)
  stdBitrate,     \* finalBitrate, in kbps
  stdpc,          \* position of the strategy
  \* options.keepDimensions and the scale of the trials of a target-size search
  kdSearch,       \* which search runs: "image", "sequential" or "parallel"
  kdKeep,         \* options.keepDimensions
  kdLimited,      \* this.isFFmpegLimited
  kdLarge,        \* isLargeVideo
  kdScales,       \* scale, in percent, applied by each trial made so far
  kdpc,           \* position of the search
  \* VideoCompressor.detectFFmpegPaths and its cache
  now,            \* minutes since the process started
  cachedPaths,    \* VideoCompressor._cachedPaths: the detection run that filled it, 0 when deleted
  timers,         \* due times of the pending setTimeout callbacks
  detections,     \* detection runs made so far
  populatedAt,    \* minute of the latest population of the cache, -1 before
  cleared,        \* clearDetectionCache was called since that population
  lastCall        \* what the latest call of detectFFmpegPaths did

poolVars == <<files, threadCount, forceThreads, items, chunks, pfpc, path, wpc,
              wresults, log, rd, evt, settled, workers, spawned, terminated,
              results, outcome, sidx>>

searchVars == <<format, targetSize, maxAttempts, minQ, maxQ, attempts, lastGoodQ,
                lastGoodSize, bestSize, trials, written, spc>>

requestVars == <<rkind, originalSize, targetBytes, mode, encodes>>

imageVars == <<keepDims, xtarget, trialResults, targetFormat, strategy, chosen, ipc>>

videoVars == <<vmode, isFFmpegLimited, isLargeVideo, cpus, vtarget, vi, observed,
               batchResults, bestResult, tempFiles, finalOutput, vpc>>

tempVars == <<inputs, outputOption, videoFormat, searchVariant, running>>

extremeVars == <<imageVars, videoVars, tempVars>>

threadVars == <<threads, ultrafast, totalCores, tpc>>

commandVars == <<resolvedFiles, options, cpuCores, hasLargeFiles, useMultiThread,
                 managerCalls, group, started, finished, failed, commandResults,
                 returnValue, exitCode, cpc>>

splitVars == <<splitInput, splitThreads, splitForce, splitOutput, splitpc>>

standardVars == <<stdTargetSize, stdDuration, stdBitrate, stdpc>>

keepVars == <<kdSearch, kdKeep, kdLimited, kdLarge, kdScales, kdpc>>

cacheVars == <<now, cachedPaths, timers, detections, populatedAt, cleared, lastCall>>

lateVars == <<keepVars, cacheVars>>

frontVars == <<threadVars, commandVars, splitVars, standardVars, lateVars>>

nonPoolVars == <<searchVars, requestVars, extremeVars, frontVars>>

nonSearchVars == <<poolVars, requestVars, extremeVars, frontVars>>

nonRequestVars == <<poolVars, searchVars, extremeVars, frontVars>>

vars == <<poolVars, searchVars, requestVars, extremeVars, frontVars>>

(* ---------------------------------------------------------------------- *)
(* Helpers                                                                 *)
(* ---------------------------------------------------------------------- *)
Min(a, b) == IF a <= b THEN a ELSE b
Max(a, b) == IF a >= b THEN a ELSE b
CeilDiv(a, b) == (a + b - 1) \div b

RECURSIVE SumSeq(_)
SumSeq(s) == IF s = <<>> THEN 0 ELSE Head(s) + SumSeq(Tail(s))

RECURSIVE Concat(_)
Concat(ss) == IF ss = <<>> THEN <<>> ELSE Head(ss) \o Concat(Tail(ss))

Count(s, P(_)) == Cardinality({i \in DOMAIN s : P(s[i])})

(* A file of the input list: a path of a small image or of an image of at  *)
(* least MIN_FRAGMENT_SIZE bytes; a fragment carries its index and total.  *)
PlainFile(name) == [kind |-> "file", name |-> name, fragmentIndex |-> 0, totalFragments |-> 0]
Fragment(name, i, k) == [kind |-> "fragment", name |-> name, fragmentIndex |-> i, totalFragments |-> k]
FileNames == {"small.jpg", "big.png"}
IsLargeImage(f) == f.name = "big.png"

(* ---------------------------------------------------------------------- *)
(* threadManager_imageFragmentation.js                                     *)
(* ---------------------------------------------------------------------- *)
RECURSIVE splitLargeImagesIntoFragments(_, _)
splitLargeImagesIntoFragments(fs, n) ==
  IF fs = <<>> THEN <<>>
  ELSE LET file == Head(fs)
           fragments == Max(MIN_FRAGMENTS, n)
       IN (IF ~IsLargeImage(file)
             THEN <<file>>
             ELSE [i \in 1..fragments |-> Fragment(file.name, i - 1, fragments)])
          \o splitLargeImagesIntoFragments(Tail(fs), n)

(* ---------------------------------------------------------------------- *)
(* ThreadManager.chunkFiles                                                *)
(* ---------------------------------------------------------------------- *)
filesPerWorkerFloor(fs, n) == Len(fs) \div n
filesPerWorkerFloorPlusOne(fs, n) == (Len(fs) \div n) + 1
filesPerWorker(fs, n) == CeilDiv(Len(fs), n)

RECURSIVE chunkLoop(_, _, _, _)
chunkLoop(fs, n, per, i) ==
  IF i < n /\ i * per < Len(fs)
    THEN LET start == i * per
             end == Min(start + per, Len(fs))
             chunk == SubSeq(fs, start + 1, end)
         IN (IF Len(chunk) > 0
               THEN <<[files |-> chunk, workerIndex |-> i]>>
               ELSE <<>>)
            \o chunkLoop(fs, n, per, i + 1)
    ELSE <<>>

chunkFiles(fs, n) == chunkLoop(fs, n, filesPerWorker(fs, n), 0)

(* Position in filesToProcess of the j-th item (1-based) of chunk c.       *)
ItemIndex(c, j) == chunks[c].workerIndex * filesPerWorker(items, threadCount) + j

ChunkIds == DOMAIN chunks

(* ---------------------------------------------------------------------- *)
(* Initial state: a ThreadManager was constructed, processFiles is called  *)
(* ---------------------------------------------------------------------- *)
(* threadCount is what calculateOptimalThreads computes from a numeric     *)
(* thread option or from the core count: an integer of at least MinThreads *)
(* (a non-numeric options.threads, which makes it NaN, is not covered).    *)
EmptyResults == [processed |-> 0, errors |-> <<>>, totalSizeReduction |-> 0, processingTimes |-> 0]

(* Input lists: any number of small images and at most one large image,    *)
(* at any position.                                                        *)
FileLists ==
  {fs \in UNION {[1..n -> {PlainFile(nm) : nm \in FileNames}] : n \in 0..MaxFiles} :
     Cardinality({i \in DOMAIN fs : IsLargeImage(fs[i])}) <= 1}

SearchIdle ==
  /\ format = "none"
  /\ targetSize = 0
  /\ maxAttempts = 0
  /\ minQ = 0
  /\ maxQ = 0
  /\ attempts = 0
  /\ lastGoodQ = 0
  /\ lastGoodSize = 0
  /\ bestSize = 0
  /\ trials = <<>>
  /\ written = 0
  /\ spc = "idle"

NoTrial ==
  [index |-> 0, format |-> "none", error |-> FALSE, size |-> 0,
   processingTime |-> 0, success |-> FALSE]

ImageIdle ==
  /\ keepDims = FALSE
  /\ xtarget = 0
  /\ trialResults = <<>>
  /\ targetFormat = "unread"
  /\ strategy = "unread"
  /\ chosen = NoTrial
  /\ ipc = "idle"

NoResult == [index |-> 0, size |-> 0, tempPath |-> FALSE]

VideoIdle ==
  /\ vmode = "none"
  /\ isFFmpegLimited = FALSE
  /\ isLargeVideo = FALSE
  /\ cpus = 0
  /\ vtarget = 0
  /\ vi = 0
  /\ observed = <<>>
  /\ batchResults = <<>>
  /\ bestResult = NoResult
  /\ tempFiles = {}
  /\ finalOutput = 0
  /\ vpc = "idle"

TempIdle ==
  /\ inputs = <<>>
  /\ outputOption = "idle"
  /\ videoFormat = "idle"
  /\ searchVariant = "idle"
  /\ running = {}

ExtremeIdle == ImageIdle /\ VideoIdle /\ TempIdle

NoOption == [kind |-> "undefined", n |-> 0]

ThreadIdle ==
  /\ threads = NoOption
  /\ ultrafast = FALSE
  /\ totalCores = 0
  /\ tpc = "idle"

NoOptions == [multiThread |-> FALSE, forceThreads |-> FALSE, parallel |-> 0]
NoCommandResults == [processed |-> 0, totalSizeReduction |-> 0, errors |-> <<>>]
Undefined == [defined |-> FALSE, value |-> NoCommandResults]

CommandIdle ==
  /\ resolvedFiles = <<>>
  /\ options = NoOptions
  /\ cpuCores = 0
  /\ hasLargeFiles = FALSE
  /\ useMultiThread = FALSE
  /\ managerCalls = <<>>
  /\ group = "none"
  /\ started = {}
  /\ finished = {}
  /\ failed = {}
  /\ commandResults = NoCommandResults
  /\ returnValue = Undefined
  /\ exitCode = 0
  /\ cpc = "idle"

SplitIdle ==
  /\ splitInput = <<>>
  /\ splitThreads = 0
  /\ splitForce = FALSE
  /\ splitOutput = <<>>
  /\ splitpc = "idle"

StandardIdle ==
  /\ stdTargetSize = 0
  /\ stdDuration = 0
  /\ stdBitrate = 0
  /\ stdpc = "idle"

KeepIdle ==
  /\ kdSearch = "none"
  /\ kdKeep = FALSE
  /\ kdLimited = FALSE
  /\ kdLarge = FALSE
  /\ kdScales = <<>>
  /\ kdpc = "idle"

CacheIdle ==
  /\ now = 0
  /\ cachedPaths = 0
  /\ timers = {}
  /\ detections = 0
  /\ populatedAt = -1
  /\ cleared = FALSE
  /\ lastCall = "none"

LateIdle == KeepIdle /\ CacheIdle

FrontIdle == ThreadIdle /\ CommandIdle /\ SplitIdle /\ StandardIdle /\ LateIdle

RequestIdle ==
  /\ rkind = "none"
  /\ originalSize = 0
  /\ targetBytes = 0
  /\ mode = "idle"
  /\ encodes = 0

PoolIdle ==
  /\ files = <<>>
  /\ threadCount = MinThreads
  /\ forceThreads = FALSE
  /\ items = <<>>
  /\ chunks = <<>>
  /\ pfpc = "idle"
  /\ path = "none"
  /\ wpc = <<>>
  /\ wresults = <<>>
  /\ log = <<>>
  /\ rd = <<>>
  /\ evt = <<>>
  /\ settled = <<>>
  /\ workers = {}
  /\ spawned = {}
  /\ terminated = {}
  /\ results = EmptyResults
  /\ outcome = <<>>
  /\ sidx = 0

Init ==
  /\ SearchIdle
  /\ RequestIdle
  /\ ExtremeIdle
  /\ FrontIdle
  /\ files \in FileLists
  /\ threadCount \in MinThreads..MaxThreads
  /\ forceThreads \in BOOLEAN
  /\ forceThreads \/ \A i \in DOMAIN files : ~IsLargeImage(files[i])
  /\ Len(splitLargeImagesIntoFragments(files, threadCount)) <= MaxFiles
  /\ items = <<>>
  /\ chunks = <<>>
  /\ pfpc = "start"
  /\ path = "none"
  /\ wpc = <<>>
  /\ wresults = <<>>
  /\ log = <<>>
  /\ rd = <<>>
  /\ evt = <<>>
  /\ settled = <<>>
  /\ workers = {}
  /\ spawned = {}
  /\ terminated = {}
  /\ results = EmptyResults
  /\ outcome = <<>>
  /\ sidx = 0

(* ---------------------------------------------------------------------- *)
(* ThreadManager.processFiles, up to the await of executeWorkers           *)
(* ---------------------------------------------------------------------- *)
(* What compress does for the item at position i of filesToProcess: it    *)
(* throws, or it returns a result; in the batches explored the item at     *)
(* position i is an input that compression shrinks by i bytes.             *)
NoOutcome == [status |-> "none", reduction |-> 0]
Outcomes(i) == {[status |-> "fail", reduction |-> 0], [status |-> "ok", reduction |-> i]}

(* ---------------------------------------------------------------------- *)
(* executeWorkers' Promise.all, then the finally block: cleanup            *)
(* ---------------------------------------------------------------------- *)
anyResolved(s) == \E c \in DOMAIN s : s[c] = "resolved"
allResolved(s) == \A c \in DOMAIN s : s[c] = "resolved"
anyRejected(s) == \E c \in DOMAIN s : s[c] = "rejected"

(* Promise.all over the per-chunk promises                                 *)
promiseAll(s) ==
  IF anyRejected(s) THEN "rejected"
  ELSE IF allResolved(s) THEN "resolved"
  ELSE "pending"

cleanupTerminateNone(ws) == {}

(* cleanup: worker.terminate() on every worker of this.workers             *)
cleanupTerminate(ws) == ws

(* The continuation of `await this.executeWorkers(...)`: it runs in the    *)
(* microtasks of the handler that settled Promise.all, before any other    *)
(* event is dispatched, and enters the finally block, where cleanup calls  *)
(* terminate() on every worker before its first await.                     *)
afterAwait(pc, s, ws) ==
  /\ pfpc' = IF pc = "await" /\ promiseAll(s) = "rejected" THEN "cleanup_throw"
             ELSE IF pc = "await" /\ promiseAll(s) = "resolved" THEN "cleanup_return"
             ELSE pc
  /\ terminated' = IF pc = "await" /\ promiseAll(s) # "pending"
                     THEN terminated \cup cleanupTerminate(ws)
                     ELSE terminated

(* createWorker for every chunk (executeWorkers' chunks.map): a Worker     *)
(* whose constructor throws rejects its promise and is never pushed.       *)
createWorkers(cs, spawnFails) ==
  /\ chunks' = cs
  /\ wpc' = [c \in DOMAIN cs |-> IF c \in spawnFails THEN "nospawn" ELSE "setup"]
  /\ wresults' = [c \in DOMAIN cs |-> <<>>]
  /\ log' = [c \in DOMAIN cs |-> <<>>]
  /\ rd' = [c \in DOMAIN cs |-> 0]
  /\ evt' = [c \in DOMAIN cs |-> "none"]
  /\ settled' = [c \in DOMAIN cs |-> IF c \in spawnFails THEN "rejected" ELSE "pending"]
  /\ workers' = DOMAIN cs \ spawnFails
  /\ spawned' = DOMAIN cs \ spawnFails

processFilesEmpty ==
  /\ pfpc = "start"
  /\ Len(files) = 0
  /\ pfpc' = "returned"
  /\ path' = "empty"
  /\ results' = [processed |-> 0, errors |-> <<>>, totalSizeReduction |-> 0, processingTimes |-> 0]
  /\ UNCHANGED <<files, threadCount, forceThreads, items, chunks, wpc, wresults,
                 log, rd, evt, settled, workers, spawned, terminated, outcome, sidx>>
  /\ UNCHANGED nonPoolVars

(* fs.stat or sharp failing inside splitLargeImagesIntoFragments rejects   *)
(* processFiles before any worker exists.                                  *)
processFilesSplitThrows ==
  /\ pfpc = "start"
  /\ Len(files) > 0
  /\ forceThreads
  /\ pfpc' = "thrown"
  /\ path' = "split"
  /\ UNCHANGED <<files, threadCount, forceThreads, items, chunks, wpc, wresults,
                 log, rd, evt, settled, workers, spawned, terminated, results,
                 outcome, sidx>>
  /\ UNCHANGED nonPoolVars

filesToProcess == IF forceThreads
                    THEN splitLargeImagesIntoFragments(files, threadCount)
                    ELSE files

singleThreadedBelowThree(n, force) == n < SingleThreadLimit - 1 /\ ~force

(* if (filesToProcess.length < 4 && !options.forceThreads)                 *)
singleThreaded(n, force) == n < SingleThreadLimit /\ ~force

processFilesSingle ==
  /\ pfpc = "start"
  /\ Len(files) > 0
  /\ singleThreaded(Len(filesToProcess), forceThreads)
  /\ items' = filesToProcess
  /\ outcome' = [i \in DOMAIN filesToProcess |-> NoOutcome]
  /\ path' = "single"
  /\ pfpc' = "single_setup"
  /\ UNCHANGED <<files, threadCount, forceThreads, chunks, wpc, wresults, log, rd,
                 evt, settled, workers, spawned, terminated, results, sidx>>
  /\ UNCHANGED nonPoolVars

processFilesPool ==
  /\ pfpc = "start"
  /\ Len(files) > 0
  /\ ~singleThreaded(Len(filesToProcess), forceThreads)
  /\ items' = filesToProcess
  /\ outcome' = [i \in DOMAIN filesToProcess |-> NoOutcome]
  /\ path' = "pool"
  /\ results' = EmptyResults
  /\ \E spawnFails \in SUBSET (DOMAIN chunkFiles(filesToProcess, threadCount)) :
       createWorkers(chunkFiles(filesToProcess, threadCount), spawnFails)
  /\ afterAwait("await", settled', workers')
  /\ UNCHANGED <<files, threadCount, forceThreads, sidx>>
  /\ UNCHANGED nonPoolVars

(* ---------------------------------------------------------------------- *)
(* compressionWorker.js: processChunk                                      *)
(* ---------------------------------------------------------------------- *)
Running(w) == w \in ChunkIds /\ w \notin terminated

post(w, m) == log' = [log EXCEPT ![w] = Append(@, m)]

(* The compressors are constructed; a failure here (no FFmpeg found by the *)
(* VideoCompressor constructor) is caught by the outer try.                *)
WorkerSetup(w) ==
  /\ Running(w)
  /\ wpc[w] = "setup"
  /\ \/ /\ wpc' = [wpc EXCEPT ![w] = "loop"]
        /\ UNCHANGED log
     \/ /\ wpc' = [wpc EXCEPT ![w] = "exited"]
        /\ post(w, [type |-> "worker_error", item |-> 0, results |-> <<>>, workerIndex |-> chunks[w].workerIndex])
  /\ UNCHANGED <<files, threadCount, forceThreads, items, chunks, pfpc, path,
                 wresults, rd, evt, settled, workers, spawned, terminated,
                 results, outcome, sidx>>
  /\ UNCHANGED nonPoolVars

workerResultAlwaysSuccess(w, o) ==
  [success |-> TRUE, reduction |-> o.reduction, workerIndex |-> chunks[w].workerIndex]

(* The result record a worker pushes for one item and the message it posts *)
workerResult(w, o) ==
  IF o.status = "fail"
    THEN [success |-> FALSE, reduction |-> 0, workerIndex |-> chunks[w].workerIndex]
    ELSE [success |-> TRUE, reduction |-> o.reduction, workerIndex |-> chunks[w].workerIndex]

workerItemMessage(w, j, o) ==
  [type |-> IF o.status = "fail" THEN "error" ELSE "progress",
   item |-> ItemIndex(w, j), results |-> <<>>, workerIndex |-> chunks[w].workerIndex]

WorkerItem(w) ==
  /\ Running(w)
  /\ wpc[w] = "loop"
  /\ Len(wresults[w]) < Len(chunks[w].files)
  /\ LET j == Len(wresults[w]) + 1 IN
     \E o \in Outcomes(ItemIndex(w, j)) :
       /\ outcome' = [outcome EXCEPT ![ItemIndex(w, j)] = o]
       /\ wresults' = [wresults EXCEPT ![w] = Append(@, workerResult(w, o))]
       /\ post(w, workerItemMessage(w, j, o))
  /\ UNCHANGED <<files, threadCount, forceThreads, items, chunks, pfpc, path, wpc,
                 rd, evt, settled, workers, spawned, terminated, results, sidx>>
  /\ UNCHANGED nonPoolVars

WorkerComplete(w) ==
  /\ Running(w)
  /\ wpc[w] = "loop"
  /\ Len(wresults[w]) = Len(chunks[w].files)
  /\ post(w, [type |-> "complete", item |-> 0, results |-> wresults[w], workerIndex |-> chunks[w].workerIndex])
  /\ wpc' = [wpc EXCEPT ![w] = "exited"]
  /\ UNCHANGED <<files, threadCount, forceThreads, items, chunks, pfpc, path,
                 wresults, rd, evt, settled, workers, spawned, terminated,
                 results, outcome, sidx>>
  /\ UNCHANGED nonPoolVars

(* The worker thread dies (uncaught error, non-zero exit) and its memory   *)
(* with it: the coordinator will see an 'error' or 'exit' event.           *)
WorkerCrash(w) ==
  /\ Running(w)
  /\ wpc[w] \in {"setup", "loop"}
  /\ wpc' = [wpc EXCEPT ![w] = "crashed"]
  /\ evt' = [evt EXCEPT ![w] = "pending"]
  /\ wresults' = [wresults EXCEPT ![w] = <<>>]
  /\ UNCHANGED <<files, threadCount, forceThreads, items, chunks, pfpc, path,
                 log, rd, settled, workers, spawned, terminated,
                 results, outcome, sidx>>
  /\ UNCHANGED nonPoolVars

(* ---------------------------------------------------------------------- *)
(* ThreadManager.createWorker: the handlers                                *)
(* ---------------------------------------------------------------------- *)
settle(s, w, to) == [s EXCEPT ![w] = IF @ = "pending" THEN to ELSE @]

completeFoldCountsAll(r, rs) ==
  [r EXCEPT !.processed = @ + Len(rs),
            !.totalSizeReduction = @ + SumSeq([i \in DOMAIN rs |-> IF rs[i].success THEN rs[i].reduction ELSE 0]),
            !.processingTimes = @ + Len(rs)]

completeFoldOverwrites(r, rs) ==
  [r EXCEPT !.processed = Count(rs, LAMBDA x : x.success),
            !.totalSizeReduction = SumSeq([i \in DOMAIN rs |-> IF rs[i].success THEN rs[i].reduction ELSE 0]),
            !.processingTimes = Count(rs, LAMBDA x : x.success)]

(* case 'complete': the forEach over message.results                       *)
completeFold(r, rs) ==
  [r EXCEPT !.processed = @ + Count(rs, LAMBDA x : x.success),
            !.totalSizeReduction = @ + SumSeq([i \in DOMAIN rs |-> IF rs[i].success THEN rs[i].reduction ELSE 0]),
            !.processingTimes = @ + Count(rs, LAMBDA x : x.success)]

(* case 'error': results.errors.push                                       *)
errorPush(r, m) ==
  [r EXCEPT !.errors = Append(@, [file |-> m.item, worker |-> m.workerIndex])]

(* terminate() closes the worker's port: no event of a terminated worker   *)
(* is dispatched any more.                                                 *)
OnMessage(w) ==
  /\ w \in spawned \ terminated
  /\ rd[w] < Len(log[w])
  /\ LET message == log[w][rd[w] + 1] IN
       /\ rd' = [rd EXCEPT ![w] = @ + 1]
       /\ CASE message.type = "progress" ->
                 UNCHANGED <<results, settled>>
            [] message.type = "error" ->
                 /\ results' = errorPush(results, message)
                 /\ UNCHANGED settled
            [] message.type = "complete" ->
                 /\ results' = completeFold(results, message.results)
                 /\ settled' = settle(settled, w, "resolved")
            [] message.type = "worker_error" ->
                 /\ settled' = settle(settled, w, "rejected")
                 /\ UNCHANGED results
  /\ afterAwait(pfpc, settled', workers)
  /\ UNCHANGED <<files, threadCount, forceThreads, items, chunks, path, wpc,
                 wresults, log, evt, workers, spawned, outcome, sidx>>
  /\ UNCHANGED nonPoolVars

(* worker.on('error') / worker.on('exit') with a non-zero code             *)
OnErrorOrExit(w) ==
  /\ w \in spawned \ terminated
  /\ evt[w] = "pending"
  /\ evt' = [evt EXCEPT ![w] = "handled"]
  /\ settled' = settle(settled, w, "rejected")
  /\ afterAwait(pfpc, settled', workers)
  /\ UNCHANGED <<files, threadCount, forceThreads, items, chunks, path, wpc,
                 wresults, log, rd, workers, spawned, results, outcome, sidx>>
  /\ UNCHANGED nonPoolVars

(* cleanup's tail (the terminations resolve, this.workers = []) and        *)
(* processFiles' return or rethrow                                         *)
CleanupDone ==
  /\ pfpc \in {"cleanup_throw", "cleanup_return"}
  /\ workers' = {}
  /\ pfpc' = IF pfpc = "cleanup_return" THEN "returned" ELSE "thrown"
  /\ UNCHANGED <<files, threadCount, forceThreads, items, chunks, path, wpc,
                 wresults, log, rd, evt, settled, spawned, terminated, results,
                 outcome, sidx>>
  /\ UNCHANGED nonPoolVars

(* ---------------------------------------------------------------------- *)
(* ThreadManager.processSingleThreaded                                     *)
(* ---------------------------------------------------------------------- *)
(* The two compressors are constructed outside the per-file try: a         *)
(* constructor that throws rejects processFiles.                           *)
SingleSetup ==
  /\ pfpc = "single_setup"
  /\ \/ /\ pfpc' = "single_loop"
        /\ results' = EmptyResults
     \/ /\ pfpc' = "thrown"
        /\ UNCHANGED results
  /\ UNCHANGED <<files, threadCount, forceThreads, items, chunks, path, wpc,
                 wresults, log, rd, evt, settled, workers, spawned, terminated,
                 outcome, sidx>>
  /\ UNCHANGED nonPoolVars

singleItem(r, i, o) ==
  IF o.status = "fail"
    THEN [r EXCEPT !.errors = Append(@, [file |-> i, worker |-> -1])]
    ELSE [r EXCEPT !.processed = @ + 1,
                   !.totalSizeReduction = @ + o.reduction,
                   !.processingTimes = @ + 1]

SingleItem ==
  /\ pfpc = "single_loop"
  /\ sidx < Len(items)
  /\ \E o \in Outcomes(sidx + 1) :
       /\ outcome' = [outcome EXCEPT ![sidx + 1] = o]
       /\ results' = singleItem(results, sidx + 1, o)
  /\ sidx' = sidx + 1
  /\ UNCHANGED <<files, threadCount, forceThreads, items, chunks, pfpc, path, wpc,
                 wresults, log, rd, evt, settled, workers, spawned, terminated>>
  /\ UNCHANGED nonPoolVars

SingleReturn ==
  /\ pfpc = "single_loop"
  /\ sidx = Len(items)
  /\ pfpc' = "returned"
  /\ UNCHANGED <<files, threadCount, forceThreads, items, chunks, path, wpc,
                 wresults, log, rd, evt, settled, workers, spawned, terminated,
                 results, outcome, sidx>>
  /\ UNCHANGED nonPoolVars

(* ---------------------------------------------------------------------- *)
Next ==
  \/ processFilesEmpty
  \/ processFilesSplitThrows
  \/ processFilesSingle
  \/ processFilesPool
  \/ \E w \in ChunkIds : WorkerSetup(w)
  \/ \E w \in ChunkIds : WorkerItem(w)
  \/ \E w \in ChunkIds : WorkerComplete(w)
  \/ \E w \in ChunkIds : WorkerCrash(w)
  \/ \E w \in ChunkIds : OnMessage(w)
  \/ \E w \in ChunkIds : OnErrorOrExit(w)
  \/ CleanupDone
  \/ SingleSetup
  \/ SingleItem
  \/ SingleReturn

Spec == Init /\ [][Next]_vars


(* ---------------------------------------------------------------------- *)
(* Properties of the batch (Spec)                                          *)
(* ---------------------------------------------------------------------- *)
ErrorEntriesFor(i) == Cardinality({k \in DOMAIN results.errors : results.errors[k].file = i})
ItemsWith(st) == {i \in DOMAIN outcome : outcome[i].status = st}
WorkerIndexOf(i) == (i - 1) \div filesPerWorker(items, threadCount)
HasPosted(c, t) == \E k \in DOMAIN log[c] : log[c][k].type = t
Handled(c, t) == \E k \in 1..rd[c] : log[c][k].type = t
FailedChunks == {c \in ChunkIds : wpc[c] \in {"nospawn", "crashed"} \/ HasPosted(c, "worker_error")}

OneFailedChunkStillResolves ==
  (path = "pool" /\ pfpc \in {"returned", "thrown"} /\ Cardinality(FailedChunks) = 1) =>
    /\ pfpc = "returned"
    /\ \A c \in FailedChunks :
         /\ Len(results.errors) = Len(chunks[c].files)
         /\ results.processed = Len(items) - Len(chunks[c].files)

(* C3: on every exit of the worker-pool branch every spawned worker has    *)
(* had terminate() called and this.workers is empty.                       *)
EveryExitTerminatesAllWorkers ==
  (path = "pool" /\ pfpc \in {"returned", "thrown"}) =>
    /\ spawned \subseteq terminated
    /\ workers = {}

EveryExitWitness ==
  /\ path = "pool"
  /\ pfpc = "thrown"
  /\ \E c \in spawned : Handled(c, "worker_error")
  /\ \E c \in spawned : wpc[c] \in {"setup", "loop"}
  /\ \E c \in spawned : Handled(c, "complete")

(* C6: a worker posts its per-item messages in chunk order, one per item,  *)
(* then at most one final message; when that is complete it carries one    *)
(* outcome per item whose success flag matches the item's message, and     *)
(* complete and worker_error never both occur.                             *)
WorkerProtocol ==
  \A w \in ChunkIds :
    LET n == Len(chunks[w].files)
        lg == log[w]
    IN /\ \A k \in DOMAIN lg :
            lg[k].type \in {"complete", "worker_error"} => k = Len(lg)
       /\ \A k \in DOMAIN lg :
            lg[k].type \in {"progress", "error"} => k <= n /\ lg[k].item = ItemIndex(w, k)
       /\ ~(HasPosted(w, "complete") /\ HasPosted(w, "worker_error"))
       /\ HasPosted(w, "complete") =>
            /\ Len(lg) = n + 1
            /\ \A j \in 1..n : lg[j].type \in {"progress", "error"}
            /\ Len(lg[n + 1].results) = n
            /\ \A j \in 1..n : lg[n + 1].results[j].success = (lg[j].type = "progress")

WorkerProtocolWitness ==
  \E w \in ChunkIds :
    /\ HasPosted(w, "complete")
    /\ HasPosted(w, "progress")
    /\ HasPosted(w, "error")

(* C7: processFiles returns a batch result only after the complete message *)
(* of every dispatched chunk was handled.                                  *)
ReturnsOnlyAfterEveryComplete ==
  (path = "pool" /\ pfpc \in {"cleanup_return", "returned"}) =>
    \A c \in ChunkIds : Handled(c, "complete")

ReturnsAfterCompleteWitness ==
  /\ path = "pool"
  /\ pfpc = "returned"
  /\ Len(chunks) = 3

(* C8: the result of a returned batch is a function of the per-item        *)
(* outcomes alone, whatever the order in which the workers' messages were  *)
(* handled: the processed count, the total size reduction and the multiset *)
(* of error entries.                                                       *)
ExpectedErrors == {[file |-> i, worker |-> WorkerIndexOf(i)] : i \in ItemsWith("fail")}
ErrorCopies(e) == Cardinality({k \in DOMAIN results.errors : results.errors[k] = e})

ResultIndependentOfInterleaving ==
  (path = "pool" /\ pfpc = "returned") =>
    /\ results.processed = Cardinality(ItemsWith("ok"))
    /\ results.totalSizeReduction = SumSeq([i \in DOMAIN outcome |-> outcome[i].reduction])
    /\ Len(results.errors) = Cardinality(ExpectedErrors)
    /\ \A e \in ExpectedErrors : ErrorCopies(e) = 1

(* the batch returned although a later chunk's error was handled before an *)
(* earlier chunk's                                                         *)
InterleavingWitness ==
  /\ path = "pool"
  /\ pfpc = "returned"
  /\ results.totalSizeReduction >= 3
  /\ \E a, b \in DOMAIN results.errors :
       a < b /\ results.errors[a].worker > results.errors[b].worker


(* C24: a list of fewer than 4 items without forceThreads never creates a  *)
(* worker: the items are processed inline, one after the other in list     *)
(* order; an empty list returns {processed: 0, errors: [],                 *)
(* totalSizeReduction: 0} without any work.                                *)
SmallBatch == Len(files) < 4 /\ ~forceThreads

ChunkLists == UNION {[1..n -> {PlainFile(nm) : nm \in FileNames}] : n \in 0..MaxChunkFiles}

InitChunk ==
  /\ SearchIdle
  /\ RequestIdle
  /\ ExtremeIdle
  /\ FrontIdle
  /\ files \in ChunkLists
  /\ threadCount \in MinThreads..MaxChunkThreads
  /\ forceThreads = FALSE
  /\ items = <<>>
  /\ chunks = <<>>
  /\ pfpc = "chunk_call"
  /\ path = "none"
  /\ wpc = <<>>
  /\ wresults = <<>>
  /\ log = <<>>
  /\ rd = <<>>
  /\ evt = <<>>
  /\ settled = <<>>
  /\ workers = {}
  /\ spawned = {}
  /\ terminated = {}
  /\ results = EmptyResults
  /\ outcome = <<>>
  /\ sidx = 0

chunkFilesCall ==
  /\ pfpc = "chunk_call"
  /\ chunks' = chunkFiles(files, threadCount)
  /\ pfpc' = "chunked"
  /\ UNCHANGED <<files, threadCount, forceThreads, items, path, wpc, wresults,
                 log, rd, evt, settled, workers, spawned, terminated, results,
                 outcome, sidx>>
  /\ UNCHANGED nonPoolVars

NextChunk == chunkFilesCall

SpecChunk == InitChunk /\ [][NextChunk]_vars

ChunkLens == [k \in DOMAIN chunks |-> Len(chunks[k].files)]
ChunkOffset(k) == SumSeq(SubSeq(ChunkLens, 1, k - 1))

Sizes == 1..MaxSize
SizesAt(q) ==
  IF \E k \in DOMAIN trials : trials[k].q = q
    THEN {trials[k].size : k \in {j \in DOMAIN trials : trials[j].q = q}}
    ELSE Sizes

QualityFormats == {"jpeg", "webp"}
SearchFormats == QualityFormats \cup {"png"}
QualityOptions == (1..MaxQualityOption) \cup {DefaultQuality}

InitSearch ==
  /\ PoolIdle
  /\ RequestIdle
  /\ ExtremeIdle
  /\ FrontIdle
  /\ format \in SearchFormats
  /\ targetSize \in 1..MaxTarget
  /\ maxAttempts \in {StandardMaxAttempts, FallbackMaxAttempts}
  /\ minQ = MinQuality
  /\ maxQ \in QualityOptions
  /\ attempts = 0
  /\ lastGoodQ = 0
  /\ lastGoodSize = 0
  /\ bestSize = 0
  /\ trials = <<>>
  /\ written = 0
  /\ spc = IF format \in QualityFormats THEN "bisect" ELSE "png"

bisectTrialLowersOnFit ==
  /\ spc = "bisect"
  /\ minQ <= maxQ /\ attempts < maxAttempts
  /\ LET q == (minQ + maxQ) \div 2 IN
     \E size \in SizesAt(q) :
       /\ trials' = Append(trials, [q |-> q, size |-> size])
       /\ IF size <= targetSize
            THEN /\ lastGoodQ' = q
                 /\ lastGoodSize' = size
                 /\ bestSize' = size
                 /\ maxQ' = q - 1
                 /\ UNCHANGED minQ
            ELSE /\ minQ' = q + 1
                 /\ UNCHANGED <<lastGoodQ, lastGoodSize, bestSize, maxQ>>
  /\ attempts' = attempts + 1
  /\ UNCHANGED <<format, targetSize, maxAttempts, written, spc>>
  /\ UNCHANGED nonSearchVars

bisectTrialKeepsBound ==
  /\ spc = "bisect"
  /\ minQ <= maxQ /\ attempts < maxAttempts
  /\ LET q == (minQ + maxQ) \div 2 IN
     \E size \in SizesAt(q) :
       /\ trials' = Append(trials, [q |-> q, size |-> size])
       /\ IF size <= targetSize
            THEN /\ lastGoodQ' = q
                 /\ lastGoodSize' = size
                 /\ bestSize' = size
                 /\ minQ' = q + 1
                 /\ UNCHANGED maxQ
            ELSE /\ maxQ' = q
                 /\ UNCHANGED <<lastGoodQ, lastGoodSize, bestSize, minQ>>
  /\ attempts' = attempts + 1
  /\ UNCHANGED <<format, targetSize, maxAttempts, written, spc>>
  /\ UNCHANGED nonSearchVars

(* one iteration of the while loop                                         *)
bisectTrial ==
  /\ spc = "bisect"
  /\ minQ <= maxQ /\ attempts < maxAttempts
  /\ LET q == (minQ + maxQ) \div 2 IN
     \E size \in SizesAt(q) :
       /\ trials' = Append(trials, [q |-> q, size |-> size])
       /\ IF size <= targetSize
            THEN /\ lastGoodQ' = q
                 /\ lastGoodSize' = size
                 /\ bestSize' = size
                 /\ minQ' = q + 1
                 /\ UNCHANGED maxQ
            ELSE /\ maxQ' = q - 1
                 /\ UNCHANGED <<lastGoodQ, lastGoodSize, bestSize, minQ>>
  /\ attempts' = attempts + 1
  /\ UNCHANGED <<format, targetSize, maxAttempts, written, spc>>
  /\ UNCHANGED nonSearchVars

(* after the loop: lastGoodBuffer is written, or else the input is encoded *)
(* once more at quality minQ and that buffer is written                    *)
bisectWrite ==
  /\ spc = "bisect"
  /\ ~(minQ <= maxQ /\ attempts < maxAttempts)
  /\ IF lastGoodQ # 0
       THEN /\ written' = lastGoodSize
            /\ UNCHANGED trials
       ELSE \E size \in SizesAt(minQ) :
              /\ trials' = Append(trials, [q |-> minQ, size |-> size])
              /\ written' = size
  /\ spc' = "done"
  /\ UNCHANGED <<format, targetSize, maxAttempts, minQ, maxQ, attempts, lastGoodQ,
                 lastGoodSize, bestSize>>
  /\ UNCHANGED nonSearchVars

(* png branch: one (compressionLevel, palette) combination per iteration;  *)
(* the first buffer within the budget is written at once                   *)
pngTrial ==
  /\ spc = "png"
  /\ attempts < PngTrials
  /\ \E size \in Sizes :
       /\ trials' = Append(trials, [q |-> attempts + 1, size |-> size])
       /\ bestSize' = IF bestSize = 0 \/ size < bestSize THEN size ELSE bestSize
       /\ IF size <= targetSize
            THEN written' = size /\ spc' = "done"
            ELSE UNCHANGED <<written, spc>>
  /\ attempts' = attempts + 1
  /\ UNCHANGED <<format, targetSize, maxAttempts, minQ, maxQ, lastGoodQ, lastGoodSize>>
  /\ UNCHANGED nonSearchVars

pngWrite ==
  /\ spc = "png"
  /\ attempts = PngTrials
  /\ written' = bestSize
  /\ spc' = "done"
  /\ UNCHANGED <<format, targetSize, maxAttempts, minQ, maxQ, attempts, lastGoodQ,
                 lastGoodSize, bestSize, trials>>
  /\ UNCHANGED nonSearchVars

(* toBuffer rejects: the error leaves the search                           *)
encodeFails ==
  /\ spc \in {"bisect", "png"}
  /\ spc' = "thrown"
  /\ UNCHANGED <<format, targetSize, maxAttempts, minQ, maxQ, attempts, lastGoodQ,
                 lastGoodSize, bestSize, trials, written>>
  /\ UNCHANGED nonSearchVars

NextSearch ==
  \/ bisectTrial
  \/ bisectWrite
  \/ pngTrial
  \/ pngWrite
  \/ encodeFails

SpecSearch == InitSearch /\ [][NextSearch]_vars

(* the search as the event loop runs it: a pending step is taken           *)
SpecSearchFair == InitSearch /\ [][NextSearch]_vars /\ WF_vars(NextSearch)

TrialSizes == {trials[k].size : k \in DOMAIN trials}
SomeTrialFits == \E k \in DOMAIN trials : trials[k].size <= targetSize

(* C9: a finished standard search wrote a buffer within the budget if any  *)
(* trial of the search was within the budget, and otherwise wrote a buffer *)
(* of the minimum size observed among its trials.                          *)
StandardSearchResult ==
  spc = "done" =>
    IF SomeTrialFits
      THEN written <= targetSize
      ELSE \A sz \in TrialSizes : written <= sz

(* ====================================================================== *)
(* SpecRequest: where a request with a target size is routed               *)
(* ====================================================================== *)
InitRequest ==
  /\ PoolIdle
  /\ SearchIdle
  /\ ExtremeIdle
  /\ FrontIdle
  /\ rkind \in {"image", "video"}
  /\ originalSize \in 1..MaxOriginal
  /\ targetBytes \in 1..MaxTargetBytes
  /\ mode = "idle"
  /\ encodes = 0

ratioAtMost(target, original, percent) == target * 100 <= percent * original

(* targetSize / originalSize < percent / 100, on integers                  *)
ratioBelow(target, original, percent) == target * 100 < percent * original

(* ImageCompressor.compressToTargetSize                                    *)
compressToTargetSize ==
  /\ rkind = "image"
  /\ mode = "idle"
  /\ mode' = IF ratioBelow(targetBytes, originalSize, ImageExtremePercent)
               THEN "extreme" ELSE "standard"
  /\ UNCHANGED <<rkind, originalSize, targetBytes, encodes>>
  /\ UNCHANGED nonRequestVars

(* VideoCompressor.compress with options.targetSize                        *)
videoCompress ==
  /\ rkind = "video"
  /\ mode = "idle"
  /\ mode' = IF ratioBelow(targetBytes, originalSize, VideoExtremePercent)
               THEN "extreme" ELSE "standard"
  /\ UNCHANGED <<rkind, originalSize, targetBytes, encodes>>
  /\ UNCHANGED nonRequestVars

(* the search the request was routed to runs its first encode              *)
firstEncode ==
  /\ mode \in {"extreme", "standard"}
  /\ encodes = 0
  /\ encodes' = 1
  /\ UNCHANGED <<rkind, originalSize, targetBytes, mode>>
  /\ UNCHANGED nonRequestVars

NextRequest ==
  \/ compressToTargetSize
  \/ videoCompress
  \/ firstEncode

SpecRequest == InitRequest /\ [][NextRequest]_vars

(* C10: a request whose target size is at least the original size is       *)
(* rejected before any encoder trial: no search is started for it.         *)
OversizedTargetRejected ==
  targetBytes >= originalSize =>
    /\ mode \notin {"extreme", "standard"}
    /\ encodes = 0

(* C22: the quality bisection terminates whatever sizes the encoder        *)
(* returns: every iteration strictly shrinks the interval [minQ, maxQ],    *)
(* the loop runs only while the interval is non-empty and the attempt cap  *)
(* (25 or 15) is not reached, and the trials never outnumber the cap.      *)
BisectionTerminates ==
  /\ [][bisectTrial => /\ minQ <= maxQ
                       /\ attempts < maxAttempts
                       /\ maxQ' - minQ' < maxQ - minQ]_vars
  /\ [](format \in QualityFormats =>
         /\ maxAttempts \in {StandardMaxAttempts, FallbackMaxAttempts}
         /\ attempts <= maxAttempts
         /\ Len(trials) <= attempts + 1)
  /\ <>(spc \in {"done", "thrown"})

BisectionWitness ==
  /\ format \in QualityFormats
  /\ maxAttempts = FallbackMaxAttempts
  /\ spc = "done"
  /\ attempts = 7
  /\ minQ > maxQ

(* C34: when the sizes the encoder returns do not decrease with quality,   *)
(* the bisection returns the output of the highest quality in              *)
(* [5, ceiling] whose size is within the budget. The floor is raised only  *)
(* after a fitting trial, to the quality above it, and the ceiling lowered *)
(* only after an overflowing trial, to the quality below it; lastGood is   *)
(* the highest-quality fitting trial seen so far; at the end lastGood is   *)
(* the ceiling still standing, which is the caller's ceiling when no trial *)
(* overflowed and otherwise lies just below an overflowing trial; when no  *)
(* trial fitted, the range is empty or quality 5 itself overflowed.        *)
MonotoneTrials ==
  \A j, k \in DOMAIN trials : trials[j].q <= trials[k].q => trials[j].size <= trials[k].size

Overflows(q) == \E k \in DOMAIN trials : trials[k].q = q /\ trials[k].size > targetSize

BisectionTrials == 1..attempts

BisectionFindsHighestFit ==
  /\ [][(spc = "bisect" /\ spc' = "bisect" /\ minQ' # minQ) =>
          LET t == trials'[Len(trials')] IN
            /\ t.size <= targetSize
            /\ minQ' = t.q + 1
            /\ minQ' > minQ
            /\ lastGoodQ' = t.q]_vars
  /\ [][(spc = "bisect" /\ spc' = "bisect" /\ maxQ' # maxQ) =>
          LET t == trials'[Len(trials')] IN
            /\ t.size > targetSize
            /\ maxQ' = t.q - 1
            /\ maxQ' < maxQ
            /\ lastGoodQ' = lastGoodQ]_vars
  /\ [](format \in QualityFormats =>
          \A k \in BisectionTrials :
            trials[k].size <= targetSize =>
              /\ trials[k].q <= lastGoodQ
              /\ \E j \in BisectionTrials :
                   trials[j].q = lastGoodQ /\ trials[j].size = lastGoodSize)
  /\ []((format \in QualityFormats /\ spc = "done" /\ MonotoneTrials) =>
          IF lastGoodQ # 0
            THEN /\ written = lastGoodSize
                 /\ written <= targetSize
                 /\ lastGoodQ >= MinQuality
                 /\ lastGoodQ = maxQ
                 /\ \/ Overflows(lastGoodQ + 1)
                    \/ \A k \in BisectionTrials : trials[k].size <= targetSize
            ELSE \/ attempts = 0 /\ maxQ < MinQuality
                 \/ Overflows(MinQuality))

HighestFitWitness ==
  /\ format \in QualityFormats
  /\ spc = "done"
  /\ MonotoneTrials
  /\ attempts = 7
  /\ lastGoodQ # 0
  /\ Overflows(lastGoodQ + 1)
  /\ \E k \in BisectionTrials : trials[k].q < lastGoodQ /\ trials[k].size <= targetSize
  /\ written = lastGoodSize

(* C21: the search is chosen from targetBytes / originalBytes: an image    *)
(* enters the extreme search exactly when the ratio is below 0.10, a video *)
(* exactly when it is below 0.15; at or above the threshold the standard   *)
(* search is selected.                                                     *)
ExtremeThreshold == IF rkind = "image" THEN 10 ELSE 15

RatioSelectsSearch ==
  mode # "idle" =>
    /\ mode \in {"extreme", "standard"}
    /\ (mode = "extreme") <=> (targetBytes * 100 < ExtremeThreshold * originalSize)

RatioAtThresholdWitness ==
  /\ rkind = "video"
  /\ targetBytes * 100 = 15 * originalSize
  /\ mode = "standard"
  /\ encodes = 1

(* ====================================================================== *)
(* SpecImageExtreme: ImageCompressor.extremeCompressionStrategy            *)
(* ====================================================================== *)
(* The catalog of the search, in the order of the source. resize is the    *)
(* scale factor in percent, 0 when the strategy does not resize.           *)
strategies ==
  << [format |-> "png",  quality |-> 1,  resize |-> 0],
     [format |-> "jpeg", quality |-> 1,  resize |-> 0],
     [format |-> "jpeg", quality |-> 3,  resize |-> 0],
     [format |-> "jpeg", quality |-> 5,  resize |-> 0],
     [format |-> "jpeg", quality |-> 8,  resize |-> 0],
     [format |-> "webp", quality |-> 1,  resize |-> 0],
     [format |-> "webp", quality |-> 3,  resize |-> 0],
     [format |-> "webp", quality |-> 5,  resize |-> 0],
     [format |-> "jpeg", quality |-> 10, resize |-> 10],
     [format |-> "jpeg", quality |-> 15, resize |-> 15],
     [format |-> "jpeg", quality |-> 20, resize |-> 20],
     [format |-> "jpeg", quality |-> 25, resize |-> 25],
     [format |-> "jpeg", quality |-> 30, resize |-> 30],
     [format |-> "webp", quality |-> 10, resize |-> 10],
     [format |-> "webp", quality |-> 15, resize |-> 15],
     [format |-> "webp", quality |-> 20, resize |-> 20],
     [format |-> "png",  quality |-> 1,  resize |-> 10],
     [format |-> "png",  quality |-> 1,  resize |-> 15],
     [format |-> "jpeg", quality |-> 5,  resize |-> 5],
     [format |-> "webp", quality |-> 5,  resize |-> 5] >>

(* strategies.filter(s => !s.resize) under keepDimensions                  *)
usedStrategies(keepDimensions) ==
  IF keepDimensions
    THEN SelectSeq(strategies, LAMBDA s : s.resize = 0)
    ELSE strategies

(* what one trial returns                                                  *)
trialError(i, s) ==
  [index |-> i, format |-> s.format, error |-> TRUE, size |-> 0,
   processingTime |-> 0, success |-> FALSE]

trialBuffer(i, s, size, time, target) ==
  [index |-> i, format |-> s.format, error |-> FALSE, size |-> size,
   processingTime |-> time, success |-> size <= target]

buffers(rs) == Cardinality({k \in DOMAIN rs : ~rs[k].error})

(* Array.prototype.sort with the three comparators of the search: stable,  *)
(* as an insertion of each element behind the elements it does not precede *)
compare(a, b, by) ==
  CASE by = "size" -> a.size - b.size
    [] by = "processingTime" -> a.processingTime - b.processingTime
    [] by = "sizeDescending" -> b.size - a.size

RECURSIVE insertSorted(_, _, _)
insertSorted(s, x, by) ==
  IF s = <<>> THEN <<x>>
  ELSE IF compare(Head(s), x, by) <= 0
    THEN <<Head(s)>> \o insertSorted(Tail(s), x, by)
    ELSE <<x>> \o s

RECURSIVE sort(_, _)
sort(s, by) ==
  IF s = <<>> THEN <<>>
  ELSE insertSorted(sort(SubSeq(s, 1, Len(s) - 1), by), s[Len(s)], by)

(* element [0] of an array, undefined when the array is empty              *)
first(s) == IF s = <<>> THEN NoTrial ELSE s[1]

succeeded(rs) == SelectSeq(rs, LAMBDA r : r.success /\ ~r.error)
successful(rs) == sort(succeeded(rs), "size")
fastest(rs) == first(sort(succeeded(rs), "processingTime"))
bestQuality(rs) == first(sort(succeeded(rs), "sizeDescending"))

HeadroomPercent == 95         \* qualityUtilization <= 95

selectBestStrategyNoSafeChoice(succ, fast, best, target) ==
  IF succ = <<>> THEN NoTrial
  ELSE LET smallest == succ[1] IN
    IF Len(succ) = 1 THEN smallest
    ELSE IF fast = smallest THEN smallest
    ELSE IF best # NoTrial /\ best.size * 100 <= HeadroomPercent * target
      THEN best
      ELSE NoTrial

selectBestStrategy(succ, fast, best, target) ==
  IF succ = <<>> THEN NoTrial
  ELSE LET smallest == succ[1] IN
    IF Len(succ) = 1 THEN smallest
    ELSE IF fast = smallest THEN smallest
    ELSE IF best # NoTrial /\ best.size * 100 <= HeadroomPercent * target
      THEN best
      ELSE smallest

(* String.prototype.toLowerCase on the option values explored              *)
toLowerCase(str) == IF str = "WEBP" THEN "webp" ELSE str

FormatOptions == {"none", "auto", "jpg", "jpeg", "png", "webp", "WEBP"}
(* this.options.strategy || 'auto'; "smart" stands for any text that is    *)
(* none of the four cases of the switch                                    *)
Policies == {"size", "speed", "quality", "auto", "smart"}

(* The selection among the successful trials. filteredSuccessful.sort(...) *)
(* of the filteredBestQuality line sorts filteredSuccessful itself, so     *)
(* under a format filter that matched the array is in descending order     *)
(* of size from then on.                                                   *)
chooseTrial(rs, formatOption, policy, target) ==
  LET filterOn == formatOption \notin {"none", "auto"}
      wanted == toLowerCase(formatOption)
      matching == SelectSeq(successful(rs), LAMBDA r : r.format = wanted)
      restricted == filterOn /\ matching # <<>>
      filteredSuccessful ==
        IF restricted THEN sort(matching, "sizeDescending") ELSE successful(rs)
      filteredFastest ==
        IF restricted
          THEN first(sort(SelectSeq(succeeded(rs), LAMBDA r : r.format = wanted),
                          "processingTime"))
          ELSE fastest(rs)
      filteredBestQuality ==
        IF restricted THEN filteredSuccessful[1] ELSE bestQuality(rs)
  IN CASE policy = "size" -> filteredSuccessful[1]
       [] policy = "speed" ->
            IF filteredFastest # NoTrial THEN filteredFastest ELSE filteredSuccessful[1]
       [] policy = "quality" ->
            IF filteredBestQuality # NoTrial THEN filteredBestQuality
                                             ELSE filteredSuccessful[1]
       [] OTHER ->
            selectBestStrategy(filteredSuccessful, filteredFastest,
                               filteredBestQuality, target)

InitImageExtreme ==
  /\ PoolIdle
  /\ SearchIdle
  /\ RequestIdle
  /\ FrontIdle
  /\ VideoIdle
  /\ TempIdle
  /\ keepDims \in BOOLEAN
  /\ xtarget \in 1..MaxTrialSize
  /\ trialResults = <<>>
  /\ targetFormat = "unread"
  /\ strategy = "unread"
  /\ chosen = NoTrial
  /\ ipc = "trials"

allTrialsSettled == Len(trialResults) = Len(usedStrategies(keepDims))

(* One trial settles. Promise.all hands the results over in index order    *)
(* whatever the order of completion, and a trial touches nothing but its   *)
(* own buffer, so the trials are taken in index order. The encoder either  *)
(* rejects or returns a buffer of any size after any time.                 *)
imageTrial ==
  /\ ipc = "trials"
  /\ ~allTrialsSettled
  /\ LET i == Len(trialResults) + 1
         s == usedStrategies(keepDims)[i] IN
       \/ trialResults' = Append(trialResults, trialError(i, s))
       \/ /\ i <= MaxLiveIndex
          /\ buffers(trialResults) < MaxBuffers
          /\ \E size \in 1..MaxTrialSize, time \in 1..MaxTime :
               trialResults' = Append(trialResults, trialBuffer(i, s, size, time, xtarget))
  /\ UNCHANGED <<keepDims, xtarget, targetFormat, strategy, chosen, ipc>>
  /\ UNCHANGED <<poolVars, searchVars, requestVars, frontVars, videoVars, tempVars>>

(* successful.length > 0: the options are read, a trial is chosen and its  *)
(* buffer is written                                                       *)
imageSelect ==
  /\ ipc = "trials"
  /\ allTrialsSettled
  /\ successful(trialResults) # <<>>
  /\ \E formatOption \in FormatOptions, policy \in Policies :
       /\ targetFormat' = formatOption
       /\ strategy' = policy
       /\ chosen' = chooseTrial(trialResults, formatOption, policy, xtarget)
  /\ ipc' = "returned"
  /\ UNCHANGED <<keepDims, xtarget, trialResults>>
  /\ UNCHANGED <<poolVars, searchVars, requestVars, frontVars, videoVars, tempVars>>

(* no successful trial and the search gives up instead                     *)
imageFallbackThrows ==
  /\ ipc = "trials"
  /\ allTrialsSettled
  /\ successful(trialResults) = <<>>
  /\ ipc' = "thrown"
  /\ UNCHANGED <<keepDims, xtarget, trialResults, targetFormat, strategy, chosen>>
  /\ UNCHANGED <<poolVars, searchVars, requestVars, frontVars, videoVars, tempVars>>

(* no successful trial: return await this.standardCompressionStrategy(..., *)
(* 15). The call ends the frame of the extreme search, whose results array *)
(* is not read again.                                                      *)
imageFallback ==
  /\ ipc = "trials"
  /\ allTrialsSettled
  /\ successful(trialResults) = <<>>
  /\ \E f \in SearchFormats, quality \in QualityOptions :
       /\ format' = f
       /\ maxQ' = quality
       /\ spc' = IF f \in QualityFormats THEN "bisect" ELSE "png"
  /\ targetSize' = xtarget
  /\ maxAttempts' = FallbackMaxAttempts
  /\ minQ' = MinQuality
  /\ attempts' = 0
  /\ lastGoodQ' = 0
  /\ lastGoodSize' = 0
  /\ bestSize' = 0
  /\ trials' = <<>>
  /\ written' = 0
  /\ trialResults' = <<>>
  /\ ipc' = "fallback"
  /\ UNCHANGED <<keepDims, xtarget, targetFormat, strategy, chosen>>
  /\ UNCHANGED <<poolVars, requestVars, frontVars, videoVars, tempVars>>

NextImageExtreme ==
  \/ imageTrial
  \/ imageSelect
  \/ imageFallback
  \/ bisectTrial
  \/ bisectWrite
  \/ pngTrial
  \/ pngWrite
  \/ encodeFails

SpecImageExtreme == InitImageExtreme /\ [][NextImageExtreme]_vars

(* ---------------------------------------------------------------------- *)
(* The image extreme search: what the selection is required to choose      *)
(* ---------------------------------------------------------------------- *)
(* jpg and jpeg name one format, as in applyCompression and                *)
(* getOutputExtension                                                      *)
canonicalFormat(formatOption) ==
  IF toLowerCase(formatOption) = "jpg" THEN "jpeg" ELSE toLowerCase(formatOption)

explicitFormat(formatOption) == formatOption \notin {"none", "auto", "unread"}

SuccessfulTrials ==
  {trialResults[k] : k \in {j \in DOMAIN trialResults :
                              trialResults[j].success /\ ~trialResults[j].error}}

SuccessfulInFormat ==
  {r \in SuccessfulTrials : r.format = canonicalFormat(targetFormat)}

(* the successful trials of the requested format when there is one, else   *)
(* every successful trial                                                  *)
CandidateTrials ==
  IF explicitFormat(targetFormat) /\ SuccessfulInFormat # {}
    THEN SuccessfulInFormat
    ELSE SuccessfulTrials

(* ties are broken as the stable sorts of the search break them: the trial *)
(* of the lower index comes first                                          *)
SmallestCandidate ==
  CHOOSE c \in CandidateTrials : \A d \in CandidateTrials :
    c.size < d.size \/ (c.size = d.size /\ c.index <= d.index)

FastestCandidate ==
  CHOOSE c \in CandidateTrials : \A d \in CandidateTrials :
    \/ c.processingTime < d.processingTime
    \/ (c.processingTime = d.processingTime /\ c.index <= d.index)

BestQualityCandidate ==
  CHOOSE c \in CandidateTrials : \A d \in CandidateTrials :
    c.size > d.size \/ (c.size = d.size /\ c.index <= d.index)

(* C11: under the policy `size` the chosen trial is a candidate successful *)
(* trial of minimum size, whatever the format option.                      *)
SizePolicyPicksSmallest ==
  (ipc = "returned" /\ strategy = "size") =>
    /\ chosen \in CandidateTrials
    /\ \A c \in CandidateTrials : chosen.size <= c.size

(* C12: under the policy `auto` the chosen trial is the smallest candidate *)
(* when it is also the fastest one, else the bestQuality candidate when    *)
(* its size is at most 95% of the budget, else the smallest candidate;     *)
(* with and without a format filter.                                       *)
AutoPolicyRule ==
  (ipc = "returned" /\ strategy = "auto") =>
    chosen = IF FastestCandidate = SmallestCandidate
               THEN SmallestCandidate
             ELSE IF BestQualityCandidate.size * 100 <= HeadroomPercent * xtarget
               THEN BestQualityCandidate
             ELSE SmallestCandidate

(* C13: with an explicit output format, under every policy, the chosen     *)
(* trial has the requested format whenever a successful trial has it.      *)
ChosenHasRequestedFormat ==
  (ipc = "returned" /\ explicitFormat(targetFormat) /\ SuccessfulInFormat # {}) =>
    chosen.format = canonicalFormat(targetFormat)

(* C14: under the policy `speed` the chosen trial is a candidate           *)
(* successful trial of minimum elapsed processing time.                    *)
SpeedPolicyPicksFastest ==
  (ipc = "returned" /\ strategy = "speed") =>
    /\ chosen \in CandidateTrials
    /\ \A c \in CandidateTrials : chosen.processingTime <= c.processingTime

(* C15: under the policy `quality` the chosen trial is a candidate         *)
(* successful trial of maximum size.                                       *)
QualityPolicyPicksLargest ==
  (ipc = "returned" /\ strategy = "quality") =>
    /\ chosen \in CandidateTrials
    /\ \A c \in CandidateTrials : chosen.size >= c.size

(* C16: when every trial of the catalog has settled and none is           *)
(* successful (failed, or larger than the budget), the extreme search does *)
(* not throw: its next step is the call of the standard search with the    *)
(* same budget and 15 attempts, and what that search writes, within the    *)
(* budget or not, is the output of the request.                            *)
NoSuccessFallsBackToStandard ==
  /\ [][(ipc = "trials" /\ allTrialsSettled /\ successful(trialResults) = <<>>) =>
          /\ ipc' = "fallback"
          /\ spc' \in {"bisect", "png"}
          /\ maxAttempts' = FallbackMaxAttempts
          /\ targetSize' = xtarget]_vars
  /\ [](ipc # "thrown")
  /\ []((ipc = "fallback" /\ spc = "done") => written > 0)
  /\ []((ipc = "fallback") <=> (spc # "idle"))

ImageFallbackWitness ==
  /\ ipc = "fallback"
  /\ maxAttempts = FallbackMaxAttempts
  /\ spc = "done"
  /\ written > targetSize

(* C35: in the image extreme search, whenever at least one trial is        *)
(* successful the search chooses a trial (never none) under every          *)
(* selection policy, the four known ones and any other text, and under     *)
(* every format option; the chosen trial is one of the successful trials   *)
(* and its size is within the target budget.                               *)
SomeTrialSuccessful ==
  \E k \in DOMAIN trialResults : trialResults[k].success /\ ~trialResults[k].error

SelectionAlwaysChooses ==
  /\ [][(ipc = "trials" /\ allTrialsSettled /\ SomeTrialSuccessful) =>
          /\ ipc' = "returned"
          /\ strategy' \in Policies
          /\ targetFormat' \in FormatOptions
          /\ chosen' # NoTrial
          /\ chosen'.size <= xtarget]_vars
  /\ [](ipc = "returned" =>
          /\ chosen # NoTrial
          /\ \E k \in DOMAIN trialResults :
               /\ trialResults[k] = chosen
               /\ trialResults[k].success
               /\ ~trialResults[k].error
          /\ chosen.size >= 1
          /\ chosen.size <= xtarget)

UnknownPolicyWitness ==
  /\ ipc = "returned"
  /\ strategy = "smart"
  /\ targetFormat = "jpg"
  /\ chosen # NoTrial
  /\ chosen.size <= xtarget
  /\ \E k \in DOMAIN trialResults : trialResults[k].error
  /\ Cardinality({k \in DOMAIN trialResults : trialResults[k].success}) = 2

(* ====================================================================== *)
(* SpecVideoExtreme: VideoCompressor.extremeCompressionStrategy and        *)
(* parallelExtremeCompressionStrategy                                      *)
(* ====================================================================== *)
(* The catalogs. A strategy is identified by its position, 1 for the first *)
(* one; its temporary file is _extreme_<position - 1>.mp4. FFmpeg is a     *)
(* black box: a trial fails, or leaves a file of any size.                 *)
resolutions == <<1, 2, 3>>          \* three scale factors in every catalog
bitrates(large) == IF large THEN <<400, 200, 100>> ELSE <<800, 600, 400, 200>>
crfsSequential(large) == IF large THEN <<36, 40, 45>> ELSE <<28, 32, 36>>
crfsParallel(large) == IF large THEN <<32, 36, 40, 45>> ELSE <<28, 32, 36, 40>>
presetsParallel == <<"fast", "medium">>

catalogLength(variant, limited, large) ==
  IF limited
    THEN Len(bitrates(large)) * Len(resolutions)
  ELSE IF variant = "sequential"
    THEN Len(crfsSequential(large)) * Len(resolutions)
    ELSE Len(presetsParallel) * Len(crfsParallel(large)) * Len(resolutions)

maxConcurrent(large, cores) == IF large THEN Min(2, cores) ELSE Min(3, cores)

batchSize(n, large, cores) == CeilDiv(n, maxConcurrent(large, cores))

videoStrategies == catalogLength(vmode, isFFmpegLimited, isLargeVideo)

outputs(obs) == {k \in DOMAIN obs : obs[k] # 0}

InitVideoExtreme ==
  /\ PoolIdle
  /\ SearchIdle
  /\ RequestIdle
  /\ FrontIdle
  /\ ImageIdle
  /\ TempIdle
  /\ vmode \in {"sequential", "parallel"}
  /\ isFFmpegLimited \in BOOLEAN
  /\ isLargeVideo \in BOOLEAN
  /\ cpus \in (IF vmode = "parallel" THEN 1..MaxCpus ELSE {0})
  /\ vtarget \in 1..MaxVideoTarget
  /\ vi = 0
  /\ observed = <<>>
  /\ batchResults = <<>>
  /\ bestResult = NoResult
  /\ tempFiles = {}
  /\ finalOutput = 0
  /\ vpc = "loop"

(* if (!bestResult || size < bestResult.size) { bestResult = result;       *)
(* bestResult.tempPath = null }                                            *)
updateBestLatest(best, result) == [result EXCEPT !.tempPath = FALSE]

updateBest(best, result) ==
  IF best = NoResult \/ result.size < best.size
    THEN [result EXCEPT !.tempPath = FALSE]
    ELSE best

sequentialTrialContinuesAfterFit ==
  /\ vmode = "sequential"
  /\ vpc = "loop"
  /\ vi < videoStrategies
  /\ vi < MaxLiveIndex
  /\ Cardinality(outputs(observed)) < MaxOutputs
  /\ LET i == vi + 1 IN
     \E size \in 1..MaxVideoSize :
       /\ observed' = Append(observed, size)
       /\ IF size <= vtarget
            THEN /\ bestResult' = [index |-> i, size |-> size, tempPath |-> TRUE]
                 /\ tempFiles' = (tempFiles \cup {i}) \ (1..(i - 1))
                 /\ vpc' = "loop"
            ELSE /\ bestResult' = updateBest(bestResult, [index |-> i, size |-> size, tempPath |-> TRUE])
                 /\ tempFiles' = tempFiles \ {i}
                 /\ vpc' = "loop"
  /\ vi' = vi + 1
  /\ UNCHANGED <<vmode, isFFmpegLimited, isLargeVideo, cpus, vtarget, batchResults, finalOutput>>
  /\ UNCHANGED <<poolVars, searchVars, requestVars, frontVars, imageVars, tempVars>>

(* sequential variant: the trial of strategy vi + 1 leaves a file          *)
sequentialTrial ==
  /\ vmode = "sequential"
  /\ vpc = "loop"
  /\ vi < videoStrategies
  /\ vi < MaxLiveIndex
  /\ Cardinality(outputs(observed)) < MaxOutputs
  /\ LET i == vi + 1 IN
     \E size \in 1..MaxVideoSize :
       /\ observed' = Append(observed, size)
       /\ IF size <= vtarget
            THEN /\ bestResult' = [index |-> i, size |-> size, tempPath |-> TRUE]
                 /\ tempFiles' = (tempFiles \cup {i}) \ (1..(i - 1))
                 /\ vpc' = "finalise"
            ELSE /\ bestResult' = updateBest(bestResult, [index |-> i, size |-> size, tempPath |-> TRUE])
                 /\ tempFiles' = tempFiles \ {i}
                 /\ vpc' = "loop"
  /\ vi' = vi + 1
  /\ UNCHANGED <<vmode, isFFmpegLimited, isLargeVideo, cpus, vtarget, batchResults, finalOutput>>
  /\ UNCHANGED <<poolVars, searchVars, requestVars, frontVars, imageVars, tempVars>>

(* sequential variant, catch (e): the partial file is unlinked and the     *)
(* loop continues                                                          *)
sequentialTrialFailsAborts ==
  /\ vmode = "sequential"
  /\ vpc = "loop"
  /\ vi < videoStrategies
  /\ observed' = Append(observed, 0)
  /\ tempFiles' = tempFiles \ {vi + 1}
  /\ vi' = vi + 1
  /\ vpc' = "thrown_trial"
  /\ UNCHANGED <<vmode, isFFmpegLimited, isLargeVideo, cpus, vtarget, batchResults,
                 bestResult, finalOutput>>
  /\ UNCHANGED <<poolVars, searchVars, requestVars, frontVars, imageVars, tempVars>>

sequentialTrialFails ==
  /\ vmode = "sequential"
  /\ vpc = "loop"
  /\ vi < videoStrategies
  /\ observed' = Append(observed, 0)
  /\ tempFiles' = tempFiles \ {vi + 1}
  /\ vi' = vi + 1
  /\ UNCHANGED <<vmode, isFFmpegLimited, isLargeVideo, cpus, vtarget, batchResults,
                 bestResult, finalOutput, vpc>>
  /\ UNCHANGED <<poolVars, searchVars, requestVars, frontVars, imageVars, tempVars>>

(* parallel variant: the strategies of the batch being tried               *)
batchStart == vi - Len(batchResults)
batchEnd ==
  Min(batchStart + batchSize(videoStrategies, isLargeVideo, cpus), videoStrategies)

(* One trial of the batch settles with a file. Promise.all hands the       *)
(* results over in index order and a trial touches only its own file, so   *)
(* the trials of a batch are taken in index order.                         *)
batchTrial ==
  /\ vmode = "parallel"
  /\ vpc = "loop"
  /\ vi < batchEnd
  /\ vi < MaxLiveIndex
  /\ Cardinality(outputs(observed)) < MaxOutputs
  /\ \E size \in 1..MaxVideoSize :
       /\ observed' = Append(observed, size)
       /\ batchResults' = Append(batchResults, [index |-> vi + 1, size |-> size, tempPath |-> TRUE])
  /\ tempFiles' = tempFiles \cup {vi + 1}
  /\ vi' = vi + 1
  /\ UNCHANGED <<vmode, isFFmpegLimited, isLargeVideo, cpus, vtarget, bestResult,
                 finalOutput, vpc>>
  /\ UNCHANGED <<poolVars, searchVars, requestVars, frontVars, imageVars, tempVars>>

(* parallel variant, catch (e): the file is unlinked, the trial yields null *)
batchTrialFails ==
  /\ vmode = "parallel"
  /\ vpc = "loop"
  /\ vi < batchEnd
  /\ observed' = Append(observed, 0)
  /\ batchResults' = Append(batchResults, NoResult)
  /\ tempFiles' = tempFiles \ {vi + 1}
  /\ vi' = vi + 1
  /\ UNCHANGED <<vmode, isFFmpegLimited, isLargeVideo, cpus, vtarget, bestResult,
                 finalOutput, vpc>>
  /\ UNCHANGED <<poolVars, searchVars, requestVars, frontVars, imageVars, tempVars>>

(* for (let j = 0; j < strategies.length; j++) if (j !== result.index)     *)
(* unlink(_extreme_<j>)                                                    *)
unlinkEarlier(fs, index) == fs \ (1..(index - 1))

unlinkOthers(fs, index) == fs \cap {index}

(* for (const result of batchResults): the state after the loop            *)
RECURSIVE examineBatch(_, _, _, _)
examineBatch(rs, best, fs, target) ==
  IF rs = <<>> THEN [best |-> best, files |-> fs]
  ELSE LET result == Head(rs) IN
    IF result = NoResult
      THEN examineBatch(Tail(rs), best, fs, target)
    ELSE IF result.size <= target
      THEN [best |-> result, files |-> unlinkOthers(fs, result.index)]
      ELSE examineBatch(Tail(rs), updateBest(best, result), fs \ {result.index}, target)

(* after await Promise.all(batchPromises)                                  *)
batchCollect ==
  /\ vmode = "parallel"
  /\ vpc = "loop"
  /\ vi = batchEnd
  /\ vi > batchStart
  /\ LET after == examineBatch(batchResults, bestResult, tempFiles, vtarget) IN
       /\ bestResult' = after.best
       /\ tempFiles' = after.files
       /\ vpc' = IF after.best # NoResult /\ after.best.tempPath THEN "finalise" ELSE "loop"
  /\ batchResults' = <<>>
  /\ UNCHANGED <<vmode, isFFmpegLimited, isLargeVideo, cpus, vtarget, vi, observed,
                 finalOutput>>
  /\ UNCHANGED <<poolVars, searchVars, requestVars, frontVars, imageVars, tempVars>>

(* both variants, after the loop                                           *)
loopOver ==
  \/ vpc = "finalise"
  \/ vpc = "loop" /\ vi = videoStrategies /\ batchResults = <<>>

(* throw new Error('No compression strategy succeeded')                    *)
noStrategySucceeded ==
  /\ loopOver
  /\ bestResult = NoResult
  /\ vpc' = "thrown_none"
  /\ UNCHANGED <<vmode, isFFmpegLimited, isLargeVideo, cpus, vtarget, vi, observed,
                 batchResults, bestResult, tempFiles, finalOutput>>
  /\ UNCHANGED <<poolVars, searchVars, requestVars, frontVars, imageVars, tempVars>>

(* fs.rename(bestResult.tempPath, finalOutputPath)                         *)
renameBest ==
  /\ loopOver
  /\ bestResult # NoResult
  /\ bestResult.tempPath /\ bestResult.index \in tempFiles
  /\ tempFiles' = tempFiles \ {bestResult.index}
  /\ finalOutput' = bestResult.index
  /\ vpc' = "returned"
  /\ UNCHANGED <<vmode, isFFmpegLimited, isLargeVideo, cpus, vtarget, vi, observed,
                 batchResults, bestResult>>
  /\ UNCHANGED <<poolVars, searchVars, requestVars, frontVars, imageVars, tempVars>>

(* the best strategy is encoded again, straight to finalOutputPath         *)
recreateBest ==
  /\ loopOver
  /\ bestResult # NoResult
  /\ ~(bestResult.tempPath /\ bestResult.index \in tempFiles)
  /\ finalOutput' = bestResult.index
  /\ vpc' = "returned"
  /\ UNCHANGED <<vmode, isFFmpegLimited, isLargeVideo, cpus, vtarget, vi, observed,
                 batchResults, bestResult, tempFiles>>
  /\ UNCHANGED <<poolVars, searchVars, requestVars, frontVars, imageVars, tempVars>>

(* ... and FFmpeg fails on it: the error leaves the search                 *)
recreateBestFails ==
  /\ loopOver
  /\ bestResult # NoResult
  /\ ~(bestResult.tempPath /\ bestResult.index \in tempFiles)
  /\ vpc' = "thrown_encode"
  /\ UNCHANGED <<vmode, isFFmpegLimited, isLargeVideo, cpus, vtarget, vi, observed,
                 batchResults, bestResult, tempFiles, finalOutput>>
  /\ UNCHANGED <<poolVars, searchVars, requestVars, frontVars, imageVars, tempVars>>

NextVideoExtreme ==
  \/ sequentialTrial
  \/ sequentialTrialFails
  \/ batchTrial
  \/ batchTrialFails
  \/ batchCollect
  \/ noStrategySucceeded
  \/ renameBest
  \/ recreateBest
  \/ recreateBestFails

SpecVideoExtreme == InitVideoExtreme /\ [][NextVideoExtreme]_vars

(* ---------------------------------------------------------------------- *)
(* The video extreme search: best effort and temporary files               *)
(* ---------------------------------------------------------------------- *)
Terminated == vpc \in {"returned", "thrown_none", "thrown_encode", "thrown_trial"}

FitObserved == \E k \in outputs(observed) : observed[k] <= vtarget

SmallestObserved(k) ==
  /\ k \in outputs(observed)
  /\ \A j \in outputs(observed) : observed[k] <= observed[j]

(* C17: when the search ends and trials left files but none within the     *)
(* budget, the lack of a fit is not an error: bestResult is a trial whose   *)
(* observed size is the smallest of all the trials that ran, and the       *)
(* search returns the output of that strategy (encoded again, the trial    *)
(* files being gone); only a failure of FFmpeg on that last encode makes   *)
(* the search throw.                                                       *)
SearchExhaustedIsBestEffort ==
  (Terminated /\ outputs(observed) # {} /\ ~FitObserved) =>
    /\ vpc \in {"returned", "thrown_encode"}
    /\ SmallestObserved(bestResult.index)
    /\ ~bestResult.tempPath
    /\ vpc = "returned" => finalOutput = bestResult.index

BestEffortWitness ==
  /\ vpc = "returned"
  /\ ~FitObserved
  /\ \E j, k \in outputs(observed) :
       /\ j < k
       /\ observed[k] < observed[j]
       /\ finalOutput = k

trialMade == vmode = "sequential" /\ observed' # observed

(* C38: the sequential video search tries the strategies one at a time in  *)
(* catalog order and stops at the first one whose output is within the     *)
(* target: that output becomes the result and no later strategy of the     *)
(* catalog is tried.                                                       *)
SequentialStopsAtFirstFit ==
  /\ [][trialMade =>
         /\ vpc = "loop"
         /\ ~FitObserved
         /\ Len(observed) = vi
         /\ vi' = vi + 1
         /\ Len(observed') = vi'
         /\ SubSeq(observed', 1, vi) = observed]_vars
  /\ [][(trialMade /\ observed'[vi'] # 0 /\ observed'[vi'] <= vtarget) =>
         /\ vpc' = "finalise"
         /\ bestResult' = [index |-> vi', size |-> observed'[vi'], tempPath |-> TRUE]
         /\ vi' \in tempFiles']_vars
  /\ []((vmode = "sequential" /\ FitObserved) =>
         /\ vpc \in {"finalise", "returned"}
         /\ bestResult.index = Len(observed)
         /\ bestResult.size = observed[Len(observed)]
         /\ bestResult.size <= vtarget
         /\ \A k \in 1..(Len(observed) - 1) : observed[k] = 0 \/ observed[k] > vtarget
         /\ vpc = "returned" => finalOutput = Len(observed))

FirstFitWitness ==
  /\ vmode = "sequential"
  /\ vpc = "returned"
  /\ Len(observed) = 3
  /\ Len(observed) < videoStrategies
  /\ observed[1] > vtarget
  /\ observed[2] = 0
  /\ observed[3] # 0 /\ observed[3] <= vtarget
  /\ finalOutput = 3

(* ====================================================================== *)
(* SpecExtreme: the image and the video extreme search                     *)
(* ====================================================================== *)
InitExtreme == InitImageExtreme \/ InitVideoExtreme

NextExtreme == NextImageExtreme \/ NextVideoExtreme

SpecExtreme == InitExtreme /\ [][NextExtreme]_vars

(* C18: an encoder error in the trial of one strategy stays in that trial. *)
(* Image search: the error is recorded as a failed trial, every strategy   *)
(* of the catalog has settled before the search selects or falls back,     *)
(* the chosen trial is a successful one and the search never throws.       *)
(* Video searches: a failed trial is never bestResult, the loop ends only  *)
(* at the end of the catalog or at a trial (sequential) or batch           *)
(* (parallel) that met the budget, and the search throws only when every   *)
(* trial failed or the final encode did.                                   *)
TrialErrorsAreContained ==
  /\ [](ipc # "thrown")
  /\ [](\A k \in DOMAIN trialResults : trialResults[k].error => ~trialResults[k].success)
  /\ []((ipc = "returned") =>
          /\ allTrialsSettled
          /\ chosen \in SuccessfulTrials
          /\ ~chosen.error)
  /\ [][(ipc = "trials" /\ ipc' # "trials") => allTrialsSettled]_vars
  /\ [](vpc # "thrown_trial")
  /\ [](bestResult # NoResult => bestResult.index \in outputs(observed))
  /\ [](vpc = "thrown_none" => (outputs(observed) = {} /\ Len(observed) = videoStrategies))
  /\ [](Terminated => (Len(observed) = videoStrategies \/ FitObserved))
  /\ []((Terminated /\ vmode = "sequential" /\ FitObserved) =>
          /\ observed[Len(observed)] <= vtarget
          /\ \A k \in 1..(Len(observed) - 1) : ~(observed[k] # 0 /\ observed[k] <= vtarget))
  /\ []((Terminated /\ vmode = "parallel" /\ Len(observed) < videoStrategies) =>
          Len(observed) % batchSize(videoStrategies, isLargeVideo, cpus) = 0)

ErrorContainedWitness ==
  /\ vmode = "parallel"
  /\ vpc = "returned"
  /\ bestResult.tempPath
  /\ \E k \in 1..(bestResult.index - 1) :
       /\ observed[k] = 0
       /\ k > Len(observed) - batchSize(videoStrategies, isLargeVideo, cpus)

(* usedStrategies.map(async ...) starts every trial of the catalog before  *)
(* Promise.all is awaited: the trials not yet settled are all in flight    *)
imageInFlight ==
  IF ipc = "trials" THEN Len(usedStrategies(keepDims)) - Len(trialResults) ELSE 0

(* batch.map(async ...) starts every trial of the batch before Promise.all *)
(* is awaited; the sequential loop awaits each trial inside its own step   *)
videoInFlight ==
  IF vmode = "parallel" /\ vpc = "loop" THEN batchEnd - vi ELSE 0

(* C31: within one extreme search the trials of the same file that are in  *)
(* flight at the same time never exceed the concurrency bound: the core    *)
(* count in the image search (whatever the machine, the search does not    *)
(* read it), maxConcurrent = min(3, cores), or min(2, cores) for a large   *)
(* video, in the batched parallel video search.                            *)
TrialsWithinConcurrencyBound ==
  /\ \A cores \in 1..MaxCpus : imageInFlight <= cores
  /\ vmode = "parallel" => videoInFlight <= maxConcurrent(isLargeVideo, cpus)

(* ====================================================================== *)
(* SpecTemp: the temporary paths of the trials of two workers              *)
(* ====================================================================== *)
(* A path is a directory, a base name, the suffix generateOutputPath adds, *)
(* an extension ("" when the name has none) and the trial mark: 0 for none,*)
(* i + 1 for _extreme_<i>.                                                 *)
Path(dir, base, suffix, ext) ==
  [dir |-> dir, base |-> base, suffix |-> suffix, ext |-> ext, trial |-> 0]

VideoFiles ==
  {Path("a", "clip", "", ".mov"), Path("a", "clip", "", ".avi"),
   Path("b", "clip", "", ".mov"), Path("a", "other", "", ".mov")}

OutputOptions == {"none", "out/", "out.mp4", "out"}
VideoFormatOptions == {"none", "auto", "mp4"}

getOutputExtension(inputFile, formatOption) ==
  IF formatOption \notin {"none", "auto"}
    THEN (IF formatOption = "mp4" THEN ".mp4" ELSE inputFile.ext)
    ELSE inputFile.ext

generateOutputPath(inputFile, output, formatOption) ==
  IF output # "none"
    THEN IF output = "out/"
           THEN Path("out", inputFile.base, "_compressed",
                     getOutputExtension(inputFile, formatOption))
         ELSE IF output = "out.mp4"
           THEN Path("", "out", "", ".mp4")
           ELSE Path("", "out", "", "")
    ELSE Path(inputFile.dir, inputFile.base, "_compressed",
              getOutputExtension(inputFile, formatOption))

(* outputPath.replace(/\.[^.]+$/, `_extreme_${i}.mp4`): a path without an  *)
(* extension is left as it is                                              *)
tempOut(outputPath, i) ==
  IF outputPath.ext # ""
    THEN [outputPath EXCEPT !.ext = ".mp4", !.trial = i + 1]
    ELSE outputPath

Workers == {1, 2}

InitTemp ==
  /\ PoolIdle
  /\ SearchIdle
  /\ RequestIdle
  /\ FrontIdle
  /\ ImageIdle
  /\ VideoIdle
  /\ inputs \in {f \in [Workers -> VideoFiles] : f[1] # f[2]}
  /\ outputOption \in OutputOptions
  /\ videoFormat \in VideoFormatOptions
  /\ searchVariant \in {"sequential", "parallel"}
  /\ running = {}

(* A worker starts the encoder of the trial of strategy i (0-based) of the *)
(* video it compresses. The sequential search runs one trial at a time,    *)
(* the parallel one the trials of a batch together; the first batch of     *)
(* every catalog holds at least three strategies.                          *)
startTrial(w, i) ==
  /\ <<w, i>> \notin running
  /\ searchVariant = "sequential" => ~(\E j \in 0..(MaxTempTrials - 1) : <<w, j>> \in running)
  /\ running' = running \cup {<<w, i>>}
  /\ UNCHANGED <<inputs, outputOption, videoFormat, searchVariant>>
  /\ UNCHANGED <<poolVars, searchVars, requestVars, frontVars, imageVars, videoVars>>

(* the encoder of a trial ends                                             *)
endTrial(w, i) ==
  /\ <<w, i>> \in running
  /\ running' = running \ {<<w, i>>}
  /\ UNCHANGED <<inputs, outputOption, videoFormat, searchVariant>>
  /\ UNCHANGED <<poolVars, searchVars, requestVars, frontVars, imageVars, videoVars>>

NextTemp ==
  \/ \E w \in Workers, i \in 0..(MaxTempTrials - 1) : startTrial(w, i)
  \/ \E w \in Workers, i \in 0..(MaxTempTrials - 1) : endTrial(w, i)

SpecTemp == InitTemp /\ [][NextTemp]_vars

writtenPath(t) ==
  tempOut(generateOutputPath(inputs[t[1]], outputOption, videoFormat), t[2])

(* C20: two trials that run at the same time, in one search or in two      *)
(* workers of the batch, never write to the same temporary path.           *)
TempPathsNeverCollide ==
  \A t1, t2 \in running : t1 # t2 => writtenPath(t1) # writtenPath(t2)

(* ====================================================================== *)
(* SpecThreads: ThreadManager.calculateOptimalThreads                      *)
(* ====================================================================== *)
(* options.threads is undefined, a number (API) or a string (command       *)
(* line): a string of digits with an optional sign, or some other text.    *)
NaN == -1000                  \* stands for the value NaN
MaxThreadCount == 32          \* Math.min(..., 32)
ThreadOptions ==
  {NoOption, [kind |-> "text", n |-> 0]}
    \cup {[kind |-> k, n |-> i] : k \in {"string", "number"}, i \in -1..MaxThreadsOption}

(* JavaScript truthiness of the option: a non-empty string or a number     *)
(* other than 0                                                            *)
truthy(o) == o.kind \in {"string", "text"} \/ (o.kind = "number" /\ o.n # 0)

parseInt(o) == IF o.kind \in {"string", "number"} THEN o.n ELSE NaN

times(a, b) == IF a = NaN \/ b = NaN THEN NaN ELSE a * b
mathMin(a, b) == IF a = NaN \/ b = NaN THEN NaN ELSE Min(a, b)
mathMax(a, b) == IF a = NaN \/ b = NaN THEN NaN ELSE Max(a, b)

calculateOptimalThreadsFlat(o, fast, cores) ==
  IF truthy(o) /\ fast
    THEN mathMax(MinThreads, mathMin(times(parseInt(o), 4), MaxThreadCount))
  ELSE IF truthy(o)
    THEN mathMax(MinThreads, mathMin(times(parseInt(o), 2), MaxThreadCount))
  ELSE mathMax(MinThreads, mathMin(times(cores, 2), MaxThreadCount))

calculateOptimalThreads(o, fast, cores) ==
  IF truthy(o) /\ fast
    THEN mathMax(MinThreads, mathMin(times(parseInt(o), 4), MaxThreadCount))
  ELSE IF truthy(o)
    THEN mathMax(MinThreads, mathMin(times(parseInt(o), 2), MaxThreadCount))
  ELSE IF fast
    THEN mathMax(MinThreads, mathMin(times(cores, 4), MaxThreadCount))
  ELSE mathMax(MinThreads, mathMin(times(cores, 2), MaxThreadCount))

InitThreads ==
  /\ PoolIdle
  /\ SearchIdle
  /\ RequestIdle
  /\ ExtremeIdle
  /\ CommandIdle
  /\ SplitIdle
  /\ StandardIdle
  /\ LateIdle
  /\ threads \in ThreadOptions
  /\ ultrafast \in BOOLEAN
  /\ totalCores \in 1..MaxCores
  /\ tpc = "constructor"

(* new ThreadManager(options)                                              *)
newThreadManager ==
  /\ tpc = "constructor"
  /\ threadCount' = calculateOptimalThreads(threads, ultrafast, totalCores)
  /\ tpc' = "constructed"
  /\ UNCHANGED <<files, forceThreads, items, chunks, pfpc, path, wpc, wresults,
                 log, rd, evt, settled, workers, spawned, terminated, results,
                 outcome, sidx>>
  /\ UNCHANGED <<threads, ultrafast, totalCores>>
  /\ UNCHANGED <<searchVars, requestVars, extremeVars, commandVars, splitVars, standardVars, lateVars>>

NextThreads == newThreadManager

SpecThreads == InitThreads /\ [][NextThreads]_vars

(* C23: the pool size is clamp(2, 32, coreCount x multiplier), with        *)
(* multiplier 4 when both an explicit thread count and ultrafast are set   *)
(* and 2 otherwise; in every case 2 <= threadCount <= 32.                  *)
explicitThreads == threads # NoOption

Multiplier == IF explicitThreads /\ ultrafast THEN 4 ELSE 2

PoolSizeBase == IF truthy(threads) THEN parseInt(threads) ELSE totalCores

LARGE_FILE_THRESHOLD == 3     \* 3 * 1024 * 1024 * 1024 bytes, in GB
FileSizesGB == {1, 3, 4}
CommandFile == [type : {"image", "video"}, size : FileSizesGB]
CommandFileLists ==
  {fs \in UNION {[1..n -> CommandFile] : n \in 0..MaxCommandFiles} :
     Cardinality({i \in DOMAIN fs : fs[i].size > 1}) <= 1}
CommandCores == {2, 6}
(* options.parallel: 0 stands for an option that is not given; --parallel   *)
(* takes any text and no code validates it, so a negative number reaches   *)
(* processFiles as it was typed                                            *)
CommandOptions == [multiThread : BOOLEAN, forceThreads : BOOLEAN, parallel : {-1, 0, 1}]

checkForLargeFiles(fs) == \E i \in DOMAIN fs : fs[i].size > LARGE_FILE_THRESHOLD

groupFilesByType(fs, g) ==
  {i \in DOMAIN fs : fs[i].type = (IF g = "images" THEN "image" ELSE "video")}

RECURSIVE ascending(_)
ascending(S) ==
  IF S = {} THEN <<>>
  ELSE LET m == CHOOSE x \in S : \A y \in S : x <= y
       IN <<m>> \o ascending(S \ {m})

RECURSIVE sumOf(_)
sumOf(S) == IF S = {} THEN 0 ELSE LET x == CHOOSE y \in S : TRUE IN x + sumOf(S \ {x})

InitCommand ==
  /\ PoolIdle
  /\ SearchIdle
  /\ RequestIdle
  /\ ExtremeIdle
  /\ ThreadIdle
  /\ SplitIdle
  /\ StandardIdle
  /\ LateIdle
  /\ resolvedFiles \in CommandFileLists
  /\ options \in CommandOptions
  /\ cpuCores \in CommandCores
  /\ hasLargeFiles = FALSE
  /\ useMultiThread = FALSE
  /\ managerCalls = <<>>
  /\ group = "none"
  /\ started = {}
  /\ finished = {}
  /\ failed = {}
  /\ commandResults = NoCommandResults
  /\ returnValue = Undefined
  /\ exitCode = 0
  /\ cpc = "start"

(* resolvedFiles.length === 0: a message and `return;`                     *)
commandNoFiles ==
  /\ cpc = "start"
  /\ Len(resolvedFiles) = 0
  /\ cpc' = "returned"
  /\ returnValue' = Undefined
  /\ UNCHANGED <<resolvedFiles, options, cpuCores, hasLargeFiles, useMultiThread,
                 managerCalls, group, started, finished, failed, commandResults,
                 exitCode>>
  /\ UNCHANGED <<poolVars, searchVars, requestVars, extremeVars, threadVars, splitVars, standardVars, lateVars>>

(* the default of options.parallel, the compressors, hasLargeFiles and     *)
(* useMultiThread, in the order of the source                              *)
commandSetup ==
  /\ cpc = "start"
  /\ Len(resolvedFiles) > 0
  /\ options' = [options EXCEPT !.parallel = IF @ = 0 THEN Max(cpuCores * 2, 8) ELSE @]
  /\ hasLargeFiles' = checkForLargeFiles(resolvedFiles)
  /\ useMultiThread' = \/ options.multiThread
                       \/ options.forceThreads
                       \/ (Len(resolvedFiles) >= 4 /\ options'.parallel = 0)
                       \/ hasLargeFiles'
  /\ group' = "images"
  /\ cpc' = "group"
  /\ UNCHANGED <<resolvedFiles, cpuCores, managerCalls, started, finished, failed,
                 commandResults, returnValue, exitCode>>
  /\ UNCHANGED <<poolVars, searchVars, requestVars, extremeVars, threadVars, splitVars, standardVars, lateVars>>

(* a compressor constructor throws (VideoCompressor without FFmpeg): the   *)
(* catch of compressCommand calls process.exit(1)                          *)
commandSetupFails ==
  /\ cpc = "start"
  /\ Len(resolvedFiles) > 0
  /\ cpc' = "exited"
  /\ exitCode' = 1
  /\ UNCHANGED <<resolvedFiles, options, cpuCores, hasLargeFiles, useMultiThread,
                 managerCalls, group, started, finished, failed, commandResults,
                 returnValue>>
  /\ UNCHANGED <<poolVars, searchVars, requestVars, extremeVars, threadVars, splitVars, standardVars, lateVars>>

(* after a group: the videos follow the images, showSummary the videos     *)
advance ==
  IF group = "images"
    THEN group' = "videos" /\ cpc' = "group"
    ELSE group' = group /\ cpc' = "summary"

(* `if (fileGroups.images.length > 0)` and the same for the videos         *)
skipGroup ==
  /\ cpc = "group"
  /\ groupFilesByType(resolvedFiles, group) = {}
  /\ advance
  /\ UNCHANGED <<resolvedFiles, options, cpuCores, hasLargeFiles, useMultiThread,
                 managerCalls, started, finished, failed, commandResults,
                 returnValue, exitCode>>
  /\ UNCHANGED <<poolVars, searchVars, requestVars, extremeVars, threadVars, splitVars, standardVars, lateVars>>

(* the branch ThreadManager.processFiles takes for a list of n files       *)
managerBranch(n, force) ==
  IF n < SingleThreadLimit /\ ~force THEN "single" ELSE "pool"

addResults(r, ok, bad) ==
  [processed |-> r.processed + Cardinality(ok),
   totalSizeReduction |-> r.totalSizeReduction + sumOf(ok),
   errors |-> r.errors \o ascending(bad)]

(* useMultiThread: threadManager.processFiles(group, options) returns its   *)
(* results, which are added to those of the command                        *)
managerProcessFiles ==
  /\ cpc = "group"
  /\ useMultiThread
  /\ LET fs == groupFilesByType(resolvedFiles, group) IN
       /\ fs # {}
       /\ \E bad \in SUBSET fs :
            /\ failed' = failed \cup bad
            /\ finished' = finished \cup fs
            /\ commandResults' = addResults(commandResults, fs \ bad, bad)
       /\ managerCalls' = Append(managerCalls,
            [group |-> group,
             branch |-> managerBranch(Cardinality(fs), options.forceThreads)])
  /\ advance
  /\ UNCHANGED <<resolvedFiles, options, cpuCores, hasLargeFiles, useMultiThread,
                 started, returnValue, exitCode>>
  /\ UNCHANGED <<poolVars, searchVars, requestVars, extremeVars, threadVars, splitVars, standardVars, lateVars>>

(* threadManager.processFiles rejects (a worker failed, or a compressor    *)
(* constructor threw): the catch of compressCommand calls process.exit(1)  *)
managerProcessFilesThrows ==
  /\ cpc = "group"
  /\ useMultiThread
  /\ LET fs == groupFilesByType(resolvedFiles, group) IN
       /\ fs # {}
       /\ managerCalls' = Append(managerCalls,
            [group |-> group,
             branch |-> managerBranch(Cardinality(fs), options.forceThreads)])
  /\ cpc' = "exited"
  /\ exitCode' = 1
  /\ UNCHANGED <<resolvedFiles, options, cpuCores, hasLargeFiles, useMultiThread,
                 group, started, finished, failed, commandResults, returnValue>>
  /\ UNCHANGED <<poolVars, searchVars, requestVars, extremeVars, threadVars, splitVars, standardVars, lateVars>>

(* processFiles of compress.js: files.map(processFile), Promise.all        *)
startProcessFiles ==
  /\ cpc = "group"
  /\ ~useMultiThread
  /\ groupFilesByType(resolvedFiles, group) # {}
  /\ cpc' = "running"
  /\ UNCHANGED <<resolvedFiles, options, cpuCores, hasLargeFiles, useMultiThread,
                 managerCalls, group, started, finished, failed, commandResults,
                 returnValue, exitCode>>
  /\ UNCHANGED <<poolVars, searchVars, requestVars, extremeVars, threadVars, splitVars, standardVars, lateVars>>

currentlyProcessing == Cardinality(started \ finished)
maxConcurrentFiles == IF options.parallel = 0 THEN 8 ELSE options.parallel

(* processFile leaves its wait loop: currentlyProcessing++ and the call of *)
(* compressor.compress                                                     *)
processFileStart(i) ==
  /\ cpc = "running"
  /\ i \in groupFilesByType(resolvedFiles, group) \ started
  /\ ~(currentlyProcessing >= maxConcurrentFiles)
  /\ started' = started \cup {i}
  /\ UNCHANGED <<resolvedFiles, options, cpuCores, hasLargeFiles, useMultiThread,
                 managerCalls, group, finished, failed, commandResults,
                 returnValue, exitCode, cpc>>
  /\ UNCHANGED <<poolVars, searchVars, requestVars, extremeVars, threadVars, splitVars, standardVars, lateVars>>

processFileEndThrows(i) ==
  /\ cpc = "running"
  /\ i \in started \ finished
  /\ \/ /\ commandResults' = addResults(commandResults, {i}, {})
        /\ finished' = finished \cup {i}
        /\ UNCHANGED <<failed, cpc, exitCode>>
     \/ /\ failed' = failed \cup {i}
        /\ cpc' = "exited"
        /\ exitCode' = 1
        /\ UNCHANGED <<commandResults, finished>>
  /\ UNCHANGED <<resolvedFiles, options, cpuCores, hasLargeFiles, useMultiThread,
                 managerCalls, group, started, returnValue>>
  /\ UNCHANGED <<poolVars, searchVars, requestVars, extremeVars, threadVars, splitVars, standardVars, lateVars>>

(* compress returned (try) or threw (catch); finally currentlyProcessing-- *)
processFileEnd(i) ==
  /\ cpc = "running"
  /\ i \in started \ finished
  /\ \/ /\ commandResults' = addResults(commandResults, {i}, {})
        /\ UNCHANGED failed
     \/ /\ commandResults' = addResults(commandResults, {}, {i})
        /\ failed' = failed \cup {i}
  /\ finished' = finished \cup {i}
  /\ UNCHANGED <<resolvedFiles, options, cpuCores, hasLargeFiles, useMultiThread,
                 managerCalls, group, started, returnValue, exitCode, cpc>>
  /\ UNCHANGED <<poolVars, searchVars, requestVars, extremeVars, threadVars, splitVars, standardVars, lateVars>>

(* Promise.all(promises) resolves                                          *)
processFilesDone ==
  /\ cpc = "running"
  /\ groupFilesByType(resolvedFiles, group) \subseteq finished
  /\ advance
  /\ UNCHANGED <<resolvedFiles, options, cpuCores, hasLargeFiles, useMultiThread,
                 managerCalls, started, finished, failed, commandResults,
                 returnValue, exitCode>>
  /\ UNCHANGED <<poolVars, searchVars, requestVars, extremeVars, threadVars, splitVars, standardVars, lateVars>>

(* showSummary(results, isQuiet); the function ends without a return       *)
(* statement                                                               *)
showSummary ==
  /\ cpc = "summary"
  /\ cpc' = "returned"
  /\ returnValue' = Undefined
  /\ UNCHANGED <<resolvedFiles, options, cpuCores, hasLargeFiles, useMultiThread,
                 managerCalls, group, started, finished, failed, commandResults,
                 exitCode>>
  /\ UNCHANGED <<poolVars, searchVars, requestVars, extremeVars, threadVars, splitVars, standardVars, lateVars>>

NextCommand ==
  \/ commandNoFiles
  \/ commandSetup
  \/ commandSetupFails
  \/ skipGroup
  \/ managerProcessFiles
  \/ managerProcessFilesThrows
  \/ startProcessFiles
  \/ \E i \in 1..MaxCommandFiles : processFileStart(i)
  \/ \E i \in 1..MaxCommandFiles : processFileEnd(i)
  \/ processFilesDone
  \/ showSummary

SpecCommand == InitCommand /\ [][NextCommand]_vars

(* C26: compress(files, options) resolves to the result object             *)
(* {processed, totalSizeReduction, errors} of the batch, the per-file      *)
(* failures being listed in errors.                                        *)
CompressResolvesToResults ==
  cpc = "returned" =>
    /\ returnValue.defined
    /\ returnValue.value = commandResults
    /\ Len(returnValue.value.errors) = Cardinality(failed)

(* C27: a batch of 4 or more files given without multiThread, forceThreads *)
(* or parallel is processed through the ThreadManager.                     *)
AutoThreadingForFourFiles ==
  [][(/\ commandSetup
      /\ Len(resolvedFiles) >= 4
      /\ ~options.multiThread /\ ~options.forceThreads /\ options.parallel = 0)
       => useMultiThread']_vars

(* C28: a single file of more than 3GB given without a threading flag is   *)
(* handed to the ThreadManager, which creates a worker for it.             *)
LargeFileUsesWorker ==
  (/\ cpc \in {"summary", "returned"}
   /\ Len(resolvedFiles) = 1
   /\ resolvedFiles[1].size > LARGE_FILE_THRESHOLD
   /\ ~options.multiThread /\ ~options.forceThreads)
    => /\ Len(managerCalls) = 1
       /\ managerCalls[1].branch = "pool"

(* ====================================================================== *)
(* SpecCommandFair: the command with an event loop that keeps running the  *)
(* callbacks that are ready (the 1 ms polls of processFile, the            *)
(* continuations of the compress calls)                                    *)
(* ====================================================================== *)
SpecCommandFair == InitCommand /\ [][NextCommand]_vars /\ WF_vars(NextCommand)

CommandErrorEntriesFor(i) ==
  Cardinality({k \in DOMAIN commandResults.errors : commandResults.errors[k] = i})

inProcessFiles == cpc = "running"

(* C36: in the processFiles of compress.js the number of compress calls in *)
(* flight stays between 0 and the parallel limit, every file of the group  *)
(* is eventually started and finished, once, and the counter is back at 0  *)
(* when processFiles resolves, whether or not compress calls failed.       *)
ProcessFilesBoundedAndComplete ==
  /\ [](inProcessFiles =>
         /\ 0 <= currentlyProcessing
         /\ currentlyProcessing <= maxConcurrentFiles)
  /\ \A i \in 1..MaxCommandFiles :
       [](/\ inProcessFiles
          /\ i \in groupFilesByType(resolvedFiles, group)
          => <>(i \in started /\ i \in finished))
  /\ [][processFilesDone =>
         /\ currentlyProcessing = 0
         /\ groupFilesByType(resolvedFiles, group) \subseteq finished
         /\ commandResults.processed + Len(commandResults.errors)
              = Cardinality(finished)
         /\ \A i \in finished :
              CommandErrorEntriesFor(i) = IF i \in failed THEN 1 ELSE 0]_vars

(* ====================================================================== *)
(* SpecBatch: the three places where files are compressed one by one       *)
(* ====================================================================== *)
InitBatch == Init \/ InitCommand

NextBatch == Next \/ NextCommand

SpecBatch == InitBatch /\ [][NextBatch]_vars

ChunkItems(c) == {ItemIndex(c, j) : j \in DOMAIN chunks[c].files}

(* C25: a failure while compressing one file does not propagate: it is     *)
(* recorded as one error entry and every other file of the chunk or batch  *)
(* is still processed, in the worker, in the single-thread fallback and in *)
(* the processFiles of compress.js.                                        *)
FileFailuresAreContained ==
  /\ \A c \in ChunkIds :
       /\ settled[c] = "rejected" => c \in FailedChunks
       /\ HasPosted(c, "complete") =>
            /\ \A i \in ChunkItems(c) : outcome[i] # NoOutcome
            /\ Len(wresults[c]) = Len(chunks[c].files)
  /\ path = "single" =>
       /\ pfpc = "thrown" => sidx = 0
       /\ \A i \in 1..sidx :
            ErrorEntriesFor(i) = IF outcome[i].status = "fail" THEN 1 ELSE 0
       /\ pfpc = "returned" => sidx = Len(items)
  /\ (path = "pool" /\ pfpc = "returned") =>
       \A i \in DOMAIN items :
         /\ outcome[i] # NoOutcome
         /\ ErrorEntriesFor(i) = IF outcome[i].status = "fail" THEN 1 ELSE 0
  /\ (cpc # "idle" /\ ~useMultiThread) =>
       /\ failed \subseteq finished
       /\ \A i \in DOMAIN resolvedFiles :
            CommandErrorEntriesFor(i) = IF i \in failed THEN 1 ELSE 0
       /\ commandResults.processed = Cardinality(finished \ failed)
       /\ cpc = "exited" => started = {}
       /\ cpc \in {"summary", "returned"} => finished = DOMAIN resolvedFiles

FileFailureWitness ==
  /\ cpc = "returned"
  /\ ~useMultiThread
  /\ Len(resolvedFiles) = 3
  /\ failed = {1}
  /\ commandResults.processed = 2
  /\ commandResults.errors = <<1>>

(* ====================================================================== *)
(* SpecSplit: splitLargeImagesIntoFragments with the rows of each fragment *)
(* ====================================================================== *)
MIN_FRAGMENT_SIZE == 100   \* 100 * 1024 * 1024 bytes, sizes counted in MB

FragmentExtensions == {".jpg", ".jpeg", ".png", ".webp", ".avif", ".bmp", ".tiff"}

(* The files handed to processFiles: the path is the position in the list, *)
(* the size is the one fs.stat reports, the height the one of the metadata *)
SplitFile == [path : 1..MaxSplitFiles, ext : {".png", ".mp4"},
              size : {MIN_FRAGMENT_SIZE - 1, MIN_FRAGMENT_SIZE}, height : 1..MaxHeight]

(* threadCount as the constructor leaves it: a number, or NaN when         *)
(* options.threads does not parse (calculateOptimalThreads)                *)
SplitThreadCounts == (1..MaxSplitThreads) \cup {NaN}

SplitFileLists ==
  UNION {{fs \in [1..n -> SplitFile] : \A i \in 1..n : fs[i].path = i} : n \in 0..MaxSplitFiles}

(* const fragmentHeight = Math.floor(metadata.height / fragments)          *)
fragmentHeight(h, fragments) == h \div fragments

(* top = i * fragmentHeight; the last fragment takes the rows that remain  *)
extractArea(i, h, fragments) ==
  LET top == i * fragmentHeight(h, fragments)
  IN [top |-> top,
      height |-> IF i = fragments - 1 THEN h - top ELSE fragmentHeight(h, fragments)]

(* What one file of the list contributes to result                         *)
fragmentsOfFile(file, n) ==
  IF file.ext \notin FragmentExtensions
    THEN <<[kind |-> "file", originalFile |-> file.path]>>
  ELSE IF file.size < MIN_FRAGMENT_SIZE
    THEN <<[kind |-> "file", originalFile |-> file.path]>>
  ELSE LET fragments == mathMax(MIN_FRAGMENTS, n)
       IN \* for (let i = 0; i < fragments; i++): no iteration when fragments is NaN
          [j \in 1..fragments |->
             [kind |-> "fragment", originalFile |-> file.path,
              fragmentIndex |-> j - 1, totalFragments |-> fragments,
              area |-> extractArea(j - 1, file.height, fragments)]]

RECURSIVE splitWithRows(_, _)
splitWithRows(fs, n) ==
  IF fs = <<>> THEN <<>>
  ELSE fragmentsOfFile(Head(fs), n) \o splitWithRows(Tail(fs), n)

(* A file on which the function calls fs.stat                              *)
isStatted(file) == file.ext \in FragmentExtensions

InitSplit ==
  /\ PoolIdle
  /\ SearchIdle
  /\ RequestIdle
  /\ ExtremeIdle
  /\ ThreadIdle
  /\ CommandIdle
  /\ StandardIdle
  /\ LateIdle
  /\ splitInput \in SplitFileLists
  /\ splitInput # <<>>
  /\ splitThreads \in SplitThreadCounts
  /\ splitForce \in BOOLEAN
  /\ splitOutput = <<>>
  /\ splitpc = "processFiles"

(* let filesToProcess = files, forceThreads not set                        *)
splitSkipped ==
  /\ splitpc = "processFiles"
  /\ ~splitForce
  /\ splitOutput' = [i \in DOMAIN splitInput |-> [kind |-> "file", originalFile |-> splitInput[i].path]]
  /\ splitpc' = "skipped"
  /\ UNCHANGED <<splitInput, splitThreads, splitForce>>
  /\ UNCHANGED <<poolVars, searchVars, requestVars, extremeVars, threadVars, commandVars, standardVars, lateVars>>

(* filesToProcess = await splitLargeImagesIntoFragments(files, threadCount) *)
(* An extract of no rows is left to sharp: it may hand back an empty       *)
(* buffer (this action) or reject (splitRejects)                           *)
splitReturns ==
  /\ splitpc = "processFiles"
  /\ splitForce
  /\ splitOutput' = splitWithRows(splitInput, splitThreads)
  /\ splitpc' = "returned"
  /\ UNCHANGED <<splitInput, splitThreads, splitForce>>
  /\ UNCHANGED <<poolVars, searchVars, requestVars, extremeVars, threadVars, commandVars, standardVars, lateVars>>

(* fs.stat, metadata or extract rejecting: the function has no try/catch   *)
splitRejects ==
  /\ splitpc = "processFiles"
  /\ splitForce
  /\ \E i \in DOMAIN splitInput : isStatted(splitInput[i])
  /\ splitpc' = "thrown"
  /\ UNCHANGED <<splitInput, splitThreads, splitForce, splitOutput>>
  /\ UNCHANGED <<poolVars, searchVars, requestVars, extremeVars, threadVars, commandVars, standardVars, lateVars>>

NextSplit ==
  \/ splitSkipped
  \/ splitReturns
  \/ splitRejects

SpecSplit == InitSplit /\ [][NextSplit]_vars

(* ---------------------------------------------------------------------- *)
(* C29: with forceThreads set, every image file at or above the size       *)
(* threshold is replaced by exactly max(2, N) fragments numbered 0..k-1    *)
(* with totalFragments = k, whose row ranges are disjoint, contiguous and  *)
(* cover rows [0, height) exactly; every other file passes through         *)
(* unchanged and the relative order of the files is preserved.             *)
(* ---------------------------------------------------------------------- *)
AtOrAboveThreshold(i) ==
  /\ splitInput[i].ext \in FragmentExtensions
  /\ splitInput[i].size >= MIN_FRAGMENT_SIZE

ExpectedFragments == IF splitThreads > 2 THEN splitThreads ELSE 2

BlockStart(i) ==
  Cardinality({j \in 1..(i - 1) : ~AtOrAboveThreshold(j)})
    + ExpectedFragments * Cardinality({j \in 1..(i - 1) : AtOrAboveThreshold(j)})

RowsOf(e) == {r \in 0..MaxHeight + 1 : e.area.top <= r /\ r < e.area.top + e.area.height}

FragmentsCoverRows ==
  (splitpc = "returned" /\ splitForce) =>
    /\ Len(splitOutput) = BlockStart(Len(splitInput) + 1)
    /\ \A i \in DOMAIN splitInput :
         LET o == BlockStart(i)
             k == ExpectedFragments
         IN IF ~AtOrAboveThreshold(i)
              THEN splitOutput[o + 1] = [kind |-> "file", originalFile |-> splitInput[i].path]
              ELSE /\ \A j \in 0..(k - 1) :
                        /\ splitOutput[o + j + 1].kind = "fragment"
                        /\ splitOutput[o + j + 1].originalFile = splitInput[i].path
                        /\ splitOutput[o + j + 1].fragmentIndex = j
                        /\ splitOutput[o + j + 1].totalFragments = k
                   /\ splitOutput[o + 1].area.top = 0
                   /\ \A j \in 1..(k - 1) :
                        splitOutput[o + j + 1].area.top
                          = splitOutput[o + j].area.top + splitOutput[o + j].area.height
                   /\ \A a, b \in 1..k :
                        a # b => RowsOf(splitOutput[o + a]) \cap RowsOf(splitOutput[o + b]) = {}
                   /\ UNION {RowsOf(splitOutput[o + a]) : a \in 1..k} = 0..(splitInput[i].height - 1)

(* ====================================================================== *)
(* SpecStandard: the bitrate of VideoCompressor.standardCompressionStrategy *)
(* ====================================================================== *)
TargetBlock == 65536        \* the target sizes tried are multiples of 64 KB
StubDuration == 60          \* getVideoMetadata without ffprobe; also `|| 60`
audioBitrate == 96
MinBitrate == 100
MaxBitrate == 10000

(* metadata.format.duration: a positive number of seconds, absent or 0,    *)
(* the 60 of the stub, or a text such as "N/A" that divides to NaN         *)
Durations == (0..MaxDuration) \cup {StubDuration, NaN}

TargetSizes == {i * TargetBlock : i \in 1..MaxTargetBlocks}

durationOrOne(d) == IF d = 0 THEN 1 ELSE d

(* const duration = metadata.format?.duration || 60                        *)
durationOrDefault(d) == IF d = 0 THEN StubDuration ELSE d

(* Math.floor(((targetSize * 8 * overheadFactor) / duration                *)
(*             - audioBitrate * 1024) / 1024) with overheadFactor = 0.85:  *)
(* 8 * 0.85 is 68/10, so the value is the floor of the exact quotient      *)
(* (68 * targetSize - audioBitrate * 1024 * 10 * duration)                 *)
(*   / (1024 * 10 * duration)                                              *)
targetBitrate(size, duration) ==
  IF duration = NaN THEN NaN
  ELSE (68 * size - audioBitrate * 1024 * 10 * duration) \div (1024 * 10 * duration)

finalBitrateNoCeiling(rate) == mathMax(MinBitrate, rate)

(* Math.max(100, Math.min(targetBitrate, 10000))                           *)
finalBitrate(rate) == mathMax(MinBitrate, mathMin(rate, MaxBitrate))

InitStandard ==
  /\ PoolIdle
  /\ SearchIdle
  /\ RequestIdle
  /\ ExtremeIdle
  /\ ThreadIdle
  /\ CommandIdle
  /\ SplitIdle
  /\ LateIdle
  /\ stdTargetSize \in TargetSizes
  /\ stdDuration \in Durations
  /\ stdBitrate = 0
  /\ stdpc = "strategy"

(* The command is built with videoBitrate(finalBitrate + 'k') and run;     *)
(* executeCompression resolves on 'end'                                    *)
standardEncodes ==
  /\ stdpc = "strategy"
  /\ stdBitrate' = finalBitrate(targetBitrate(stdTargetSize, durationOrDefault(stdDuration)))
  /\ stdpc' = "returned"
  /\ UNCHANGED <<stdTargetSize, stdDuration>>
  /\ UNCHANGED <<poolVars, searchVars, requestVars, extremeVars, threadVars, commandVars, splitVars, lateVars>>

(* executeCompression rejects on 'error'                                   *)
standardEncodeFails ==
  /\ stdpc = "strategy"
  /\ stdBitrate' = finalBitrate(targetBitrate(stdTargetSize, durationOrDefault(stdDuration)))
  /\ stdpc' = "thrown"
  /\ UNCHANGED <<stdTargetSize, stdDuration>>
  /\ UNCHANGED <<poolVars, searchVars, requestVars, extremeVars, threadVars, commandVars, splitVars, lateVars>>

NextStandard ==
  \/ standardEncodes
  \/ standardEncodeFails

SpecStandard == InitStandard /\ [][NextStandard]_vars

(* ---------------------------------------------------------------------- *)
(* C30: the bitrate handed to the encoder by the standard strategy is      *)
(* floor(((targetBytes * 8 * 0.85) / duration - 96 * 1024) / 1024) clamped *)
(* to [100, 10000] kbps: for every target size and every positive duration *)
(* it lies in 100..10000, it is 100 exactly when the formula gives at most *)
(* 100, 10000 exactly when it gives at least 10000, and the floor of the   *)
(* formula otherwise.                                                      *)
(* ---------------------------------------------------------------------- *)
(* (targetBytes * 8 * 0.85) / duration / 1024 is 17 * targetBytes over     *)
(* 2560 * duration, and floor(x - 96) >= b exactly when x >= b + 96        *)
ScaledTarget == 17 * stdTargetSize

ScaledSecond == 2560 * stdDuration

BitrateIsClampedFormula ==
  (stdpc \in {"returned", "thrown"} /\ stdDuration > 0) =>
    /\ stdBitrate \in 100..10000
    /\ stdBitrate = 100 <=> ScaledTarget < (101 + 96) * ScaledSecond
    /\ stdBitrate = 10000 <=> ScaledTarget >= (10000 + 96) * ScaledSecond
    /\ stdBitrate \in 101..9999 =>
         /\ (stdBitrate + 96) * ScaledSecond <= ScaledTarget
         /\ ScaledTarget < (stdBitrate + 1 + 96) * ScaledSecond

BitrateWitness ==
  /\ stdpc = "returned"
  /\ stdTargetSize = 11 * TargetBlock
  /\ stdDuration = 2
  /\ stdBitrate = 2297

BitrateFloorWitness ==
  /\ stdpc = "returned"
  /\ stdDuration = 3
  /\ stdTargetSize = TargetBlock
  /\ stdBitrate = 100

BitrateCeilingWitness ==
  /\ stdpc = "returned"
  /\ stdDuration = 1
  /\ stdTargetSize = MaxTargetBlocks * TargetBlock
  /\ stdBitrate = 10000

(* ---------------------------------------------------------------------- *)
(* C33: a video whose duration is zero or missing is given the assumed     *)
(* duration of 60 seconds in the bitrate formula: the formula does not     *)
(* divide by zero, the bitrate handed to the encoder is the clamped value  *)
(* of the formula for 60 seconds, a number in 100..10000, and the request  *)
(* does not fail because of the duration.                                  *)
(* ---------------------------------------------------------------------- *)
AssumedSecond == 2560 * 60

CACHE_TTL == 5   \* 5 * 60 * 1000 ms, the clock counts minutes

NoPaths == 0     \* VideoCompressor._cachedPaths is not set

otherVars == <<poolVars, searchVars, requestVars, extremeVars, threadVars, commandVars,
               splitVars, standardVars, keepVars>>

InitCache ==
  /\ PoolIdle
  /\ SearchIdle
  /\ RequestIdle
  /\ ExtremeIdle
  /\ ThreadIdle
  /\ CommandIdle
  /\ SplitIdle
  /\ StandardIdle
  /\ KeepIdle
  /\ now = 0
  /\ cachedPaths = NoPaths
  /\ timers = {}
  /\ detections = 0
  /\ populatedAt = -1
  /\ cleared = FALSE
  /\ lastCall = "none"

(* `if (VideoCompressor._cachedPaths) return VideoCompressor._cachedPaths` *)
detectFromCache ==
  /\ cachedPaths # NoPaths
  /\ lastCall' = "hit"
  /\ UNCHANGED <<now, cachedPaths, timers, detections, populatedAt, cleared>>
  /\ UNCHANGED otherVars

(* The detection runs; its result, numbered by the run, is stored in       *)
(* _cachedPaths and a timer is armed for 5 minutes later. The timers armed *)
(* before stay armed.                                                      *)
detectAndFill ==
  /\ cachedPaths = NoPaths
  /\ detections < MaxDetections
  /\ detections' = detections + 1
  /\ cachedPaths' = detections + 1
  /\ timers' = timers \cup {now + CACHE_TTL}
  /\ populatedAt' = now
  /\ cleared' = FALSE
  /\ lastCall' = "detect"
  /\ UNCHANGED now
  /\ UNCHANGED otherVars

(* static clearDetectionCache() { delete VideoCompressor._cachedPaths; }   *)
clearDetectionCache ==
  /\ cachedPaths' = NoPaths
  /\ cleared' = TRUE
  /\ lastCall' = "clear"
  /\ UNCHANGED <<now, timers, detections, populatedAt>>
  /\ UNCHANGED otherVars

(* () => { delete VideoCompressor._cachedPaths; } of a timer that is due   *)
timerFires(due) ==
  /\ due \in timers
  /\ due = now
  /\ timers' = timers \ {due}
  /\ cachedPaths' = NoPaths
  /\ lastCall' = "expire"
  /\ UNCHANGED <<now, detections, populatedAt, cleared>>
  /\ UNCHANGED otherVars

(* a minute passes; a timer that is due runs before the clock moves on     *)
tick ==
  /\ now < MaxClock
  /\ \A due \in timers : due > now
  /\ now' = now + 1
  /\ UNCHANGED <<cachedPaths, timers, detections, populatedAt, cleared, lastCall>>
  /\ UNCHANGED otherVars

NextCache ==
  \/ detectFromCache
  \/ detectAndFill
  \/ clearDetectionCache
  \/ \E due \in 0..(MaxClock + CACHE_TTL) : timerFires(due)
  \/ tick

SpecCache == InitCache /\ [][NextCache]_vars

(* the last population is less than 5 minutes old and no                   *)
(* clearDetectionCache was called since                                    *)
entryIsCurrent ==
  /\ populatedAt >= 0
  /\ ~cleared
  /\ now < populatedAt + CACHE_TTL

(* C37: once detectFFmpegPaths has populated the cache, every later call   *)
(* returns that result without running the detection again, until 5        *)
(* minutes have passed since that population or clearDetectionCache is     *)
(* called; an entry populated after a clearDetectionCache is not removed   *)
(* by the timer of an earlier population.                                  *)
CacheEntryLivesItsTTL ==
  /\ [](entryIsCurrent => cachedPaths = detections)
  /\ [][entryIsCurrent => ~detectAndFill]_vars

(* ====================================================================== *)
(* SpecKeep: options.keepDimensions and the scale of the trials of the     *)
(* extreme searches                                                        *)
(* ====================================================================== *)
FullScale == 100            \* a trial that does not resize, scale in percent

(* if (strategy.resize && !keepDims) instance.resize(...)                  *)
imageScale(keepDimensions, i) ==
  LET s == usedStrategies(keepDimensions)[i]
  IN IF s.resize # 0 /\ ~keepDimensions THEN s.resize ELSE FullScale

(* const resolutions = ... of the two video searches, in percent           *)
videoResolutions(variant, limited, large) ==
  IF variant = "parallel" \/ limited
    THEN (IF large THEN <<50, 30, 20>> ELSE <<100, 70, 50>>)
    ELSE (IF large THEN <<30, 20, 10>> ELSE <<70, 50, 30>>)

(* scale is the innermost loop of the catalog; if (s.scale < 1.0) the      *)
(* command gets size(width * scale x height * scale)                       *)
videoScale(variant, limited, large, i) ==
  videoResolutions(variant, limited, large)[((i - 1) % Len(resolutions)) + 1]

keepCatalogLength ==
  IF kdSearch = "image"
    THEN Len(usedStrategies(kdKeep))
    ELSE catalogLength(kdSearch, kdLimited, kdLarge)

InitKeep ==
  /\ PoolIdle
  /\ SearchIdle
  /\ RequestIdle
  /\ ExtremeIdle
  /\ ThreadIdle
  /\ CommandIdle
  /\ SplitIdle
  /\ StandardIdle
  /\ CacheIdle
  /\ kdSearch \in {"image", "sequential", "parallel"}
  /\ kdKeep \in BOOLEAN
  /\ kdLimited \in (IF kdSearch = "image" THEN {FALSE} ELSE BOOLEAN)
  /\ kdLarge \in (IF kdSearch = "image" THEN {FALSE} ELSE BOOLEAN)
  /\ kdScales = <<>>
  /\ kdpc = "trials"

(* the trial of the next strategy of the catalog is made                   *)
keepTrial ==
  /\ kdpc = "trials"
  /\ Len(kdScales) < keepCatalogLength
  /\ LET i == Len(kdScales) + 1
     IN kdScales' = Append(kdScales,
                           IF kdSearch = "image"
                             THEN imageScale(kdKeep, i)
                             ELSE videoScale(kdSearch, kdLimited, kdLarge, i))
  /\ UNCHANGED <<kdSearch, kdKeep, kdLimited, kdLarge, kdpc>>
  /\ UNCHANGED <<poolVars, searchVars, requestVars, extremeVars, threadVars, commandVars,
                 splitVars, standardVars, cacheVars>>

(* The search ends: the image search after every trial, the sequential     *)
(* video search after a trial that met the budget, the parallel one after  *)
(* a batch that holds such a trial, and both at the end of the catalog     *)
keepEnd ==
  /\ kdpc = "trials"
  /\ \/ Len(kdScales) = keepCatalogLength
     \/ kdSearch = "sequential" /\ Len(kdScales) >= 1
     \/ /\ kdSearch = "parallel"
        /\ Len(kdScales) >= 1
        /\ \E cores \in 1..MaxCpus :
             Len(kdScales) % batchSize(keepCatalogLength, kdLarge, cores) = 0
  /\ kdpc' = "done"
  /\ UNCHANGED <<kdSearch, kdKeep, kdLimited, kdLarge, kdScales>>
  /\ UNCHANGED <<poolVars, searchVars, requestVars, extremeVars, threadVars, commandVars,
                 splitVars, standardVars, cacheVars>>

NextKeep ==
  \/ keepTrial
  \/ keepEnd

SpecKeep == InitKeep /\ [][NextKeep]_vars

(* ---------------------------------------------------------------------- *)
(* C32: with keepDimensions set a target-size search never applies a scale *)
(* below 1: no image or video strategy that downscales is tried, so none   *)
(* is chosen and the output keeps the original dimensions.                 *)
(* ---------------------------------------------------------------------- *)
KeepDimensionsNeverScales ==
  kdKeep => \A i \in DOMAIN kdScales : kdScales[i] = FullScale

TypeOK ==
  /\ pfpc \in {"idle", "chunk_call", "chunked", "start", "await", "cleanup_throw", "cleanup_return", "returned",
               "thrown", "single_setup", "single_loop"}
  /\ terminated \subseteq spawned
  /\ workers \subseteq spawned
====
